---- MODULE Spec2Model ----
(***************************************************************************)
(* Triangle Game (triangle_game.py): the shared game state kept in STORE,  *)
(* the page script that every session runs against it, and the pure        *)
(* helpers the script calls (name normalisation, geodesic containment).    *)
(*                                                                         *)
(* Every session runs the page script in a thread of its own, and STORE is *)
(* a plain dictionary without a lock: the runs of the sessions interleave  *)
(* statement by statement.  A step is one statement of the listing that    *)
(* writes STORE[gid], or the reads that lead up to it; a blocking call to  *)
(* the geocoding service ends a step.                                      *)
(***************************************************************************)
EXTENDS Integers, Sequences, FiniteSets, TLC

(***************************************************************************)
(* Bounds of the model.                                                    *)
(***************************************************************************)
MaxPlayers == 2
MaxRounds == 2
NumSessions == 2
MaxVertices == 3

None == "None"

(***************************************************************************)
(* Text.  A string is a sequence of characters; a character is a one-token *)
(* string.  "e_acute" is the precomposed letter U+00E9, "acute" the        *)
(* combining mark U+0301 that NFD decomposition splits off.                *)
(***************************************************************************)
UpperCase ==
    [A |-> "a", B |-> "b", D |-> "d", E |-> "e", I |-> "i", L |-> "l",
     M |-> "m", N |-> "n", O |-> "o", P |-> "p", R |-> "r", S |-> "s"]

CombiningMarks == {"acute"}

Whitespace == {" "}

Punctuation == {"-", "'", "backtick"}

lower(ch) == IF ch \in DOMAIN UpperCase THEN UpperCase[ch] ELSE ch

NFD(ch) == IF ch = "e_acute" THEN <<"e", "acute">> ELSE <<ch>>

RECURSIVE lstrip(_)
lstrip(s) ==
    IF s # <<>> /\ Head(s) \in Whitespace THEN lstrip(Tail(s)) ELSE s

RECURSIVE rstrip(_)
rstrip(s) ==
    IF s # <<>> /\ s[Len(s)] \in Whitespace
    THEN rstrip(SubSeq(s, 1, Len(s) - 1))
    ELSE s

strip(s) == rstrip(lstrip(s))

RECURSIVE strip_marks(_)
strip_marks(s) ==
    IF s = <<>> THEN <<>>
    ELSE SelectSeq(NFD(Head(s)), LAMBDA c : c \notin CombiningMarks)
         \o strip_marks(Tail(s))

RECURSIVE collapse_ws(_)
collapse_ws(s) ==
    IF s = <<>> THEN <<>>
    ELSE IF Head(s) \in Whitespace
         THEN <<" ">> \o collapse_ws(lstrip(s))
         ELSE <<Head(s)>> \o collapse_ws(Tail(s))

normalize_city_name(name) ==
    LET low == [i \in 1..Len(strip(name)) |-> lower(strip(name)[i])]
        nomarks == strip_marks(low)
        spaced == [i \in 1..Len(nomarks) |->
                     IF nomarks[i] \in Punctuation THEN " " ELSE nomarks[i]]
    IN  strip(collapse_ws(spaced))

Separator == <<" ", "/", " ">>

make_label(fr, local) == fr \o Separator \o local

has_separator(s) == \E i \in 1..(Len(s) - 2) : SubSeq(s, i, i + 2) = Separator

\* label.split(" / ")[0]: the text before the first " / ", the whole text
\* when there is none.
split_first(s) ==
    IF has_separator(s)
    THEN LET first == CHOOSE i \in 1..(Len(s) - 2) :
                        /\ SubSeq(s, i, i + 2) = Separator
                        /\ \A j \in 1..(i - 1) : SubSeq(s, j, j + 2) # Separator
         IN  SubSeq(s, 1, first - 1)
    ELSE s

submission_name_fr(entry) ==
    IF strip(entry.name_fr) # <<>> THEN entry.name_fr
    ELSE IF has_separator(entry.label) THEN strip(split_first(entry.label))
         ELSE entry.label

(***************************************************************************)
(* Spherical geometry.  A coordinate is a record [lat, lon] in units of    *)
(* 1/10000 degree.  _unit_vec is tabulated for the coordinates of the      *)
(* model: the unit vector of the code, scaled by 1000 and rounded to       *)
(* integers, so that cross and dot products are exact integer arithmetic.  *)
(***************************************************************************)
Coord(lat, lon) == [lat |-> lat, lon |-> lon]

UnitVecTable ==
    << <<Coord(488567, 23508),    <<657, 27, 753>> >>,
       <<Coord(525200, 134050),   <<592, 141, 794>> >>,
       <<Coord(404168, -37038),   <<760, -49, 648>> >>,
       <<Coord(515074, -1278),    <<622, -1, 783>> >>,
       <<Coord(492583, 40317),    <<651, 46, 758>> >>,
       <<Coord(479025, 19090),    <<670, 22, 742>> >>,
       <<Coord(454700, -755200),  <<175, -679, 713>> >>,
       <<Coord(457333, 49167),    <<695, 60, 716>> >>,
       <<Coord(457500, 48500),    <<695, 59, 716>> >>,
       <<Coord(336609, -955555),  <<-81, -828, 554>> >>,
       <<Coord(900000, 0),        <<0, 0, 1000>> >>,
       <<Coord(-900000, 0),       <<0, 0, -1000>> >>,
       <<Coord(0, 0),             <<1000, 0, 0>> >>,
       <<Coord(0, 900000),        <<0, 1000, 0>> >>,
       <<Coord(0, 1800000),       <<-1000, 0, 0>> >>,
       <<Coord(0, -900000),       <<0, -1000, 0>> >>,
       <<Coord(0, 450000),        <<707, 707, 0>> >>,
       <<Coord(450000, 450000),   <<500, 500, 707>> >>,
       <<Coord(0, -1000000),      <<-174, -985, 0>> >>,
       <<Coord(0, 300000),        <<866, 500, 0>> >> >>

unit_vec(p) ==
    LET i == CHOOSE k \in 1..Len(UnitVecTable) : UnitVecTable[k][1] = p
    IN  UnitVecTable[i][2]

cross(a, b) ==
    << a[2] * b[3] - a[3] * b[2],
       a[3] * b[1] - a[1] * b[3],
       a[1] * b[2] - a[2] * b[1] >>

\* the product of the first two components only
dot_plane(a, b) == a[1] * b[1] + a[2] * b[2]

dot(a, b) == a[1] * b[1] + a[2] * b[2] + a[3] * b[3]

\* eps = 1e-10 of the code, in the units of the scaled integer products:
\* 0 < eps * 1000^k < 1 for k = 2, 3, so for an integer x
\*   |x| < eps  iff  x = 0,   x < -eps  iff  x < 0,   x > eps  iff  x > 0.
never_near_zero(x) == FALSE
abs_below_eps(x) == x = 0
\* x < eps, without the tolerance
below_eps(x) == x <= 0
below_minus_eps(x) == x < 0
never_above(x) == FALSE
above_eps(x) == x > 0

\* _norm(n) < eps: the norm of an integer vector is 0 or at least 1.
norm_below_eps(n) == \A i \in 1..3 : abs_below_eps(n[i])

inside_geodesic_triangle(tri, p) ==
    IF Len(tri) # 3 THEN FALSE
    ELSE
    LET a == unit_vec(tri[1])
        b == unit_vec(tri[2])
        c == unit_vec(tri[3])
        n_ab == cross(a, b)
        n_bc == cross(b, c)
        n_ca == cross(c, a)
        s_ab == dot(n_ab, c)
        s_bc == dot(n_bc, a)
        s_ca == dot(n_ca, b)
        p_vec == unit_vec(p)
    IN  IF norm_below_eps(n_ab) \/ norm_below_eps(n_bc) \/ norm_below_eps(n_ca)
        THEN FALSE
        ELSE IF abs_below_eps(s_ab) \/ abs_below_eps(s_bc) \/ abs_below_eps(s_ca)
        THEN FALSE
        ELSE IF s_ab > 0 /\ below_minus_eps(dot(n_ab, p_vec)) THEN FALSE
        ELSE IF s_ab < 0 /\ above_eps(dot(n_ab, p_vec)) THEN FALSE
        ELSE IF s_bc > 0 /\ below_minus_eps(dot(n_bc, p_vec)) THEN FALSE
        ELSE IF s_bc < 0 /\ above_eps(dot(n_bc, p_vec)) THEN FALSE
        ELSE IF s_ca > 0 /\ below_minus_eps(dot(n_ca, p_vec)) THEN FALSE
        ELSE IF s_ca < 0 /\ above_eps(dot(n_ca, p_vec)) THEN FALSE
        ELSE TRUE

(***************************************************************************)
(* The cities the geocoding service can answer with.  Each is the tuple    *)
(* (lat, lon, name_fr, name_local, population) that bilingual_geocode      *)
(* builds from the service's best match; population 0 means unknown.       *)
(***************************************************************************)
Geo(lat, lon, fr, local, pop) ==
    [coord |-> Coord(lat, lon), fr |-> fr, local |-> local, pop |-> pop]

Paris == Geo(488567, 23508, <<"P","a","r","i","s">>,
             <<"P","a","r","i","s">>, 2148000)
Berlin == Geo(525200, 134050, <<"B","e","r","l","i","n">>,
              <<"B","e","r","l","i","n">>, 3645000)
Madrid == Geo(404168, -37038, <<"M","a","d","r","i","d">>,
              <<"M","a","d","r","i","d">>, 3266000)
London == Geo(515074, -1278, <<"L","o","n","d","r","e","s">>,
              <<"L","o","n","d","o","n">>, 8982000)
Reims == Geo(492583, 40317, <<"R","e","i","m","s">>,
             <<"R","e","i","m","s">>, 182000)
OrleansFr == Geo(479025, 19090, <<"O","r","l","e_acute","a","n","s">>,
                 <<"O","r","l","e_acute","a","n","s">>, 116000)
OrleansCa == Geo(454700, -755200, <<"O","R","L","E","A","N","S">>,
                 <<"O","r","l","e","a","n","s">>, 107000)
Lyon == Geo(457500, 48500, <<"L","y","o","n">>, <<"L","y","o","n">>, 516000)
ParisTx == Geo(336609, -955555, <<"P","A","R","I","S">>,
               <<"P","a","r","i","s">>, 25000)
Bron == Geo(457333, 49167, <<"B","r","o","n">>, <<"B","r","o","n">>, 0)

World == {Paris, ParisTx, Berlin, Madrid, London, Reims, Lyon, OrleansFr,
          OrleansCa, Bron}

Reasons == {"no_match"}

Failure(reason) == [reason |-> reason]

\* What the service finds for a query: a city of World or a failure reason.
Picks == World \cup {Failure(r) : r \in Reasons}

\* the look-up that never asks for a population
geocode_any_population(pick, require_population) ==
    IF "reason" \in DOMAIN pick
    THEN [found |-> FALSE, reason |-> pick.reason]
    ELSE [found |-> TRUE, geo |-> pick]

\* bilingual_geocode, given the service's pick for the query: (geo, reason).
bilingual_geocode(pick, require_population) ==
    IF "reason" \in DOMAIN pick
    THEN [found |-> FALSE, reason |-> pick.reason]
    ELSE IF require_population /\ pick.pop = 0
         THEN [found |-> FALSE, reason |-> "population"]
         ELSE [found |-> TRUE, geo |-> pick]

(***************************************************************************)
(* State: the fields of STORE[gid] (new_state), whether gid is still in    *)
(* STORE, the message the last run of the page script showed, the          *)
(* position (the line the run is about to execute) and the local variables *)
(* of each session's run, the list kept in the leaderboard file, and the   *)
(* game's leaderboard_saved mark (state.get: false until it is set).       *)
(***************************************************************************)
VARIABLES players, rounds, triangle, triangle_labels, triangle_names,
          submissions, scores, turn, submitted_counts, stage,
          seats, seat_keys, player_names, in_store, notice, pc, locals,
          leaderboard, leaderboard_saved

game == <<triangle, triangle_labels, triangle_names, submissions, scores,
          turn, submitted_counts, stage>>

\* the fields of the game but triangle_names, which the head of every run
\* may fill in (ensure_state_meta)
game_rest == <<triangle, triangle_labels, submissions, scores, turn,
               submitted_counts, stage>>

config == <<players, rounds>>

vars == <<players, rounds, triangle, triangle_labels, triangle_names,
          submissions, scores, turn, submitted_counts, stage,
          seats, seat_keys, player_names, in_store, notice, pc, locals,
          leaderboard, leaderboard_saved>>

SessionNames == <<"s1", "s2", "s3", "s4">>
Sessions == {SessionNames[i] : i \in 1..NumSessions}

\* uuid.uuid4().hex drawn for a seat: one fresh token per seat.
KeyNames == <<"k1", "k2", "k3", "k4">>
uuid4(player) == KeyNames[player]

Players == 1..players

\* a session without a run in progress has no local variables
NoLocals == [player |-> 0]

Sum(f) ==
    LET RECURSIVE S(_)
        S(D) == IF D = {} THEN 0
                ELSE LET x == CHOOSE y \in D : TRUE IN f[x] + S(D \ {x})
    IN  S(DOMAIN f)

(***************************************************************************)
(* Seats.                                                                  *)
(***************************************************************************)
\* seat_key_for: the seat's key, generated on first use.
seat_key_for(keys, player) ==
    IF keys[player] # None THEN [key |-> keys[player], seat_keys |-> keys]
    ELSE [key |-> uuid4(player),
          seat_keys |-> [keys EXCEPT ![player] = uuid4(player)]]

\* claim_seat: (ok, key) and the seats and seat_keys it leaves.
claim_seat(st_seats, st_keys, player, session_id, seat_key, force) ==
    LET current == st_seats[player]
        current_key == st_keys[player]
        taken == [st_seats EXCEPT ![player] = session_id]
        gen == seat_key_for(st_keys, player)
    IN  IF current \in {None, session_id}
        THEN [ok |-> TRUE, key |-> gen.key, seats |-> taken,
              seat_keys |-> gen.seat_keys]
        ELSE IF seat_key # None /\ current_key # None /\ seat_key = current_key
        THEN [ok |-> TRUE, key |-> current_key, seats |-> taken,
              seat_keys |-> st_keys]
        ELSE IF force
        THEN [ok |-> TRUE, key |-> gen.key, seats |-> taken,
              seat_keys |-> gen.seat_keys]
        ELSE [ok |-> FALSE, key |-> current_key, seats |-> st_seats,
              seat_keys |-> st_keys]

(***************************************************************************)
(* The game dictionary: new_state, the lobby's "Create game", and          *)
(* random_triangle run from its first line to its last.                    *)
(***************************************************************************)
new_state(n_players) ==
    [players |-> n_players,
     triangle |-> <<>>,
     triangle_labels |-> <<>>,
     triangle_names |-> <<>>,
     submissions |-> [i \in 1..n_players |-> <<>>],
     scores |-> [i \in 1..n_players |-> 0],
     turn |-> 1,
     rounds |-> 3,
     submitted_counts |-> [i \in 1..n_players |-> 0],
     stage |-> "triangle",
     player_names |-> [i \in 1..n_players |-> <<>>],
     seats |-> [i \in 1..n_players |-> None],
     seat_keys |-> [i \in 1..n_players |-> None]]

\* "Create game": the rounds chosen in the form, the creator seated
create_game(n_players, n_rounds, session_id) ==
    LET st == [new_state(n_players) EXCEPT !.rounds = n_rounds]
        c == claim_seat(st.seats, st.seat_keys, 1, session_id, None, FALSE)
    IN  [st EXCEPT !.seats = c.seats, !.seat_keys = c.seat_keys]

\* random_triangle, given the candidate set `best` its retry loop ends
\* with (empty when no attempt resolved all three cities)
random_triangle(st, best) ==
    IF best = <<>> THEN st
    ELSE [st EXCEPT
            !.triangle = [i \in 1..3 |-> best[i].coord],
            !.triangle_labels = [i \in 1..3 |-> make_label(best[i].fr, best[i].local)],
            !.triangle_names = [i \in 1..3 |-> best[i].fr],
            !.stage = "scoring",
            !.turn = 1]

\* STORE[gid] = st
Stored(st) ==
    /\ players = st.players
    /\ rounds = st.rounds
    /\ triangle = st.triangle
    /\ triangle_labels = st.triangle_labels
    /\ triangle_names = st.triangle_names
    /\ submissions = st.submissions
    /\ scores = st.scores
    /\ turn = st.turn
    /\ submitted_counts = st.submitted_counts
    /\ stage = st.stage
    /\ seats = st.seats
    /\ seat_keys = st.seat_keys
    /\ player_names = st.player_names
    /\ in_store = TRUE

\* the candidate sets random_triangle can end with
Candidates == {<<>>, <<Paris, Berlin, Madrid>>}

\* a game just created; the triangle stage does not read the rounds
Init ==
    /\ \E n \in 1..MaxPlayers : Stored(create_game(n, MaxRounds, "s1"))
    /\ notice = "none"
    /\ leaderboard = <<>>
    /\ leaderboard_saved = FALSE
    /\ pc = [s \in Sessions |-> "idle"]
    /\ locals = [s \in Sessions |-> NoLocals]

\* a game just created whose triangle random_triangle has drawn
PlayInit ==
    /\ \E n \in 1..MaxPlayers, r \in 1..MaxRounds, best \in Candidates \ {<<>>} :
           Stored(random_triangle(create_game(n, r, "s1"), best))
    /\ notice = "none"
    /\ leaderboard = <<>>
    /\ leaderboard_saved = FALSE
    /\ pc = [s \in Sessions |-> "idle"]
    /\ locals = [s \in Sessions |-> NoLocals]

(***************************************************************************)
(* Helpers of the page script.                                             *)
(***************************************************************************)
\* state["turn"] % players + 1
next_turn(t, n) == (t % n) + 1

\* state["rounds"] * players
total_turns(r, n) == r * n

\* {normalize_city_name(n) for n in state["triangle_names"]}
tri_norms(names) == {normalize_city_name(names[i]) : i \in 1..Len(names)}

\* the used_norms set built from every player's submissions
used_norms(subs) ==
    UNION {{normalize_city_name(submission_name_fr(subs[q][i])) :
              i \in 1..Len(subs[q])} : q \in DOMAIN subs}

\* the entry dict of an accepted submission
make_entry(geo, inside) ==
    [lat |-> geo.coord.lat, lon |-> geo.coord.lon,
     label |-> make_label(geo.fr, geo.local), name_fr |-> geo.fr,
     population |-> geo.pop, outside |-> ~inside]

\* the population added whether or not the city is inside
score_gain_always(inside, pop) == pop

\* what "if inside and pop: scores += pop" adds
score_gain(inside, pop) == IF inside /\ pop # 0 THEN pop ELSE 0

(***************************************************************************)
(* The head of the page script (lines 1640-1697), run for the request      *)
(* (player, key) of session s.                                             *)
(***************************************************************************)
\* ensure_state_meta (lines 1385-1388): triangle_names, when empty, is
\* rebuilt from the labels
ensure_state_meta(names, labels) ==
    IF names = <<>> /\ labels # <<>>
    THEN [i \in 1..Len(labels) |-> split_first(labels[i])]
    ELSE names

\* the keys a request can carry: none, or a key that was handed out
KnownKeys == {None} \cup {seat_keys[q] : q \in Players}

goto(s, label) == pc' = [pc EXCEPT ![s] = label]

\* a run that passes the head: the seat is claimed (line 1679) and the key
\* of the request is the seat's key, so line 1694 does not rerun
enter(s, p, key) ==
    LET c == claim_seat(seats, seat_keys, p, s, key, FALSE)
    IN  /\ pc[s] = "idle"
        /\ in_store
        /\ triangle_names' = ensure_state_meta(triangle_names, triangle_labels)
        /\ c.ok
        /\ c.key = key
        /\ seats' = c.seats
        /\ seat_keys' = c.seat_keys

\* a run that ends in the head: "Seat already taken" (with or without
\* "Take seat" pressed), or the seat claimed and the URL given its key
ClaimSeat(s, p, key, take) ==
    LET c == claim_seat(seats, seat_keys, p, s, key, FALSE)
        f == claim_seat(seats, seat_keys, p, s, None, TRUE)
    IN  /\ pc[s] = "idle"
        /\ in_store
        /\ triangle_names' = ensure_state_meta(triangle_names, triangle_labels)
        /\ IF ~c.ok
           THEN IF take
                THEN /\ seats' = f.seats
                     /\ seat_keys' = f.seat_keys
                ELSE UNCHANGED <<seats, seat_keys>>
           ELSE /\ c.key # key
                /\ seats' = c.seats
                /\ seat_keys' = c.seat_keys
        /\ UNCHANGED <<config, leaderboard, leaderboard_saved, player_names, in_store, game_rest, notice, pc, locals>>

\* the refusal that also passes the turn on
reject_and_pass(s, message) ==
    /\ notice' = message
    /\ turn' = next_turn(turn, players)
    /\ goto(s, "idle")
    /\ locals' = [locals EXCEPT ![s] = NoLocals]
    /\ UNCHANGED <<config, leaderboard, leaderboard_saved, player_names, in_store, triangle, triangle_labels, triangle_names,
                   submissions, scores, submitted_counts, stage, seats,
                   seat_keys>>

\* a refused input: the warning or error is shown and the run ends
reject(s, message) ==
    /\ notice' = message
    /\ goto(s, "idle")
    /\ locals' = [locals EXCEPT ![s] = NoLocals]
    /\ UNCHANGED <<config, leaderboard, leaderboard_saved, player_names, in_store, game, seats, seat_keys>>

\* the run of session s ends (st.rerun)
rerun(s) ==
    /\ goto(s, "idle")
    /\ locals' = [locals EXCEPT ![s] = NoLocals]

(***************************************************************************)
(* random_triangle (lines 1774-1811).                                      *)
(***************************************************************************)
Solo == players = 1 /\ triangle = <<>>

\* line 1818 (one-player game without a vertex) or line 1821 ("Random
\* triangle" pressed by player 1): the retry loop starts
RandomOpen(s, p, key) ==
    /\ enter(s, p, key)
    /\ stage = "triangle"
    /\ p = 1
    /\ goto(s, "L1779")
    /\ locals' = [locals EXCEPT ![s] = [player |-> p]]
    /\ UNCHANGED <<config, leaderboard, leaderboard_saved, player_names, in_store, game_rest, notice>>

\* lines 1779-1801: the loop ends with the candidate set `best`, empty
\* when no attempt resolved all three cities
RandomResolve(s, best) ==
    /\ pc[s] = "L1779"
    /\ IF best = <<>>
       THEN reject(s, "geo_error")
       ELSE /\ goto(s, "L1802")
            /\ locals' = [locals EXCEPT ![s] = [player |-> @.player, best |-> best]]
            /\ UNCHANGED <<config, leaderboard, leaderboard_saved, player_names, in_store, game, seats, seat_keys, notice>>

RandomSetTriangle(s) ==
    /\ pc[s] = "L1802"
    /\ triangle' = [i \in 1..3 |-> locals[s].best[i].coord]
    /\ goto(s, "L1803")
    /\ UNCHANGED <<config, leaderboard, leaderboard_saved, player_names, in_store, triangle_labels, triangle_names, submissions,
                   scores, turn, submitted_counts, stage, seats, seat_keys,
                   notice, locals>>

RandomSetLabels(s) ==
    /\ pc[s] = "L1803"
    /\ triangle_labels' = [i \in 1..3 |->
           make_label(locals[s].best[i].fr, locals[s].best[i].local)]
    /\ goto(s, "L1804")
    /\ UNCHANGED <<config, leaderboard, leaderboard_saved, player_names, in_store, triangle, triangle_names, submissions, scores,
                   turn, submitted_counts, stage, seats, seat_keys, notice,
                   locals>>

RandomSetNames(s) ==
    /\ pc[s] = "L1804"
    /\ triangle_names' = [i \in 1..3 |-> locals[s].best[i].fr]
    /\ goto(s, "L1810")
    /\ UNCHANGED <<config, leaderboard, leaderboard_saved, player_names, in_store, triangle, triangle_labels, submissions, scores,
                   turn, submitted_counts, stage, seats, seat_keys, notice,
                   locals>>

RandomSetStage(s) ==
    /\ pc[s] = "L1810"
    /\ stage' = "scoring"
    /\ goto(s, "L1811")
    /\ UNCHANGED <<config, leaderboard, leaderboard_saved, player_names, in_store, triangle, triangle_labels, triangle_names,
                   submissions, scores, turn, submitted_counts, seats,
                   seat_keys, notice, locals>>

RandomSetTurn(s) ==
    /\ pc[s] = "L1811"
    /\ turn' = 1
    /\ rerun(s)
    /\ UNCHANGED <<config, leaderboard, leaderboard_saved, player_names, in_store, triangle, triangle_labels, triangle_names,
                   submissions, scores, submitted_counts, stage, seats,
                   seat_keys, notice>>

(***************************************************************************)
(* Triangle stage (lines 1816-1857).                                       *)
(***************************************************************************)
\* len(state["triangle"]) == 3
triangle_full(tri) == Len(tri) = 3

\* a run that submits nothing: the waiting branch for the other players,
\* the empty form for the player whose turn it is
TriangleRender(s, p, key) ==
    /\ enter(s, p, key)
    /\ stage = "triangle"
    /\ ~Solo
    /\ UNCHANGED <<config, leaderboard, leaderboard_saved, player_names, in_store, game_rest, notice, pc, locals>>

\* lines 1827-1835: "Submit city" pressed with a city typed by the player
\* whose turn it is; the geocoding service is called.  MaxVertices caps the
\* vertices present when a run starts (runs in flight may add to them).
TriangleOpen(s, p, key) ==
    /\ enter(s, p, key)
    /\ stage = "triangle"
    /\ ~Solo
    /\ p = turn
    /\ Len(triangle) < MaxVertices
    /\ goto(s, "L1835")
    /\ locals' = [locals EXCEPT ![s] = [player |-> p]]
    /\ UNCHANGED <<config, leaderboard, leaderboard_saved, player_names, in_store, game_rest, notice>>

\* lines 1835-1841: the service answers with `pick`; the duplicate test
VertexResolve(s, pick) ==
    LET r == bilingual_geocode(pick, FALSE)
    IN  /\ pc[s] = "L1835"
        /\ IF ~r.found
           THEN reject(s, "geo_error")
           ELSE IF normalize_city_name(r.geo.fr) \in tri_norms(triangle_names)
           THEN reject(s, "vertex_duplicate")
           ELSE /\ goto(s, "L1843")
                /\ locals' = [locals EXCEPT ![s] =
                                 [player |-> @.player, geo |-> r.geo]]
                /\ UNCHANGED <<config, leaderboard, leaderboard_saved, player_names, in_store, game, seats, seat_keys, notice>>

VertexAppend(s) ==
    /\ pc[s] = "L1843"
    /\ triangle' = Append(triangle, locals[s].geo.coord)
    /\ goto(s, "L1844")
    /\ UNCHANGED <<config, leaderboard, leaderboard_saved, player_names, in_store, triangle_labels, triangle_names, submissions,
                   scores, turn, submitted_counts, stage, seats, seat_keys,
                   notice, locals>>

VertexLabel(s) ==
    /\ pc[s] = "L1844"
    /\ triangle_labels' = Append(triangle_labels,
                                 make_label(locals[s].geo.fr, locals[s].geo.local))
    /\ goto(s, "L1845")
    /\ UNCHANGED <<config, leaderboard, leaderboard_saved, player_names, in_store, triangle, triangle_names, submissions, scores,
                   turn, submitted_counts, stage, seats, seat_keys, notice,
                   locals>>

VertexName(s) ==
    /\ pc[s] = "L1845"
    /\ triangle_names' = Append(triangle_names, locals[s].geo.fr)
    /\ goto(s, "L1846")
    /\ UNCHANGED <<config, leaderboard, leaderboard_saved, player_names, in_store, triangle, triangle_labels, submissions, scores,
                   turn, submitted_counts, stage, seats, seat_keys, notice,
                   locals>>

VertexTurn(s) ==
    /\ pc[s] = "L1846"
    /\ turn' = next_turn(turn, players)
    /\ goto(s, "L1847")
    /\ UNCHANGED <<config, leaderboard, leaderboard_saved, player_names, in_store, triangle, triangle_labels, triangle_names,
                   submissions, scores, submitted_counts, stage, seats,
                   seat_keys, notice, locals>>

\* line 1847: the length test; line 1854 when it fails
VertexTest(s) ==
    /\ pc[s] = "L1847"
    /\ IF triangle_full(triangle)
       THEN goto(s, "L1853") /\ UNCHANGED locals
       ELSE rerun(s)
    /\ UNCHANGED <<config, leaderboard, leaderboard_saved, player_names, in_store, game, seats, seat_keys, notice>>

\* lines 1848-1854
VertexStage(s) ==
    /\ pc[s] = "L1853"
    /\ stage' = "scoring"
    /\ rerun(s)
    /\ UNCHANGED <<config, leaderboard, leaderboard_saved, player_names, in_store, triangle, triangle_labels, triangle_names,
                   submissions, scores, turn, submitted_counts, seats,
                   seat_keys, notice>>

(***************************************************************************)
(* Scoring stage (lines 1863-1920).                                        *)
(***************************************************************************)
AllSubmitted ==
    Sum(submitted_counts) >= total_turns(rounds, players)

\* lines 1867-1870: every turn played, the stage moves on
ScoringFinish(s, p, key) ==
    /\ enter(s, p, key)
    /\ stage = "scoring"
    /\ AllSubmitted
    /\ stage' = "name_entry"
    /\ UNCHANGED <<config, leaderboard, leaderboard_saved, player_names, in_store, triangle, triangle_labels,
                   submissions, scores, turn, submitted_counts, notice, pc,
                   locals>>

\* a run that submits nothing
ScoringRender(s, p, key) ==
    /\ enter(s, p, key)
    /\ stage = "scoring"
    /\ ~AllSubmitted
    /\ UNCHANGED <<config, leaderboard, leaderboard_saved, player_names, in_store, game_rest, notice, pc, locals>>

\* lines 1881-1883: "Submit city" pressed on an empty text box
ScoringEmpty(s, p, key) ==
    /\ enter(s, p, key)
    /\ stage = "scoring"
    /\ ~AllSubmitted
    /\ p = turn
    /\ notice' = "enter_city"
    /\ UNCHANGED <<config, leaderboard, leaderboard_saved, player_names, in_store, game_rest, pc, locals>>

\* lines 1872-1885: "Submit city" pressed with a city typed by the player
\* whose turn it is; the geocoding service is called
ScoringOpen(s, p, key) ==
    /\ enter(s, p, key)
    /\ stage = "scoring"
    /\ ~AllSubmitted
    /\ p = turn
    /\ goto(s, "L1885")
    /\ locals' = [locals EXCEPT ![s] = [player |-> p]]
    /\ UNCHANGED <<config, leaderboard, leaderboard_saved, player_names, in_store, game_rest, notice>>

\* lines 1885-1910: the service answers with `pick`; the two name tests,
\* the containment test and the entry
ScoringResolve(s, pick) ==
    LET r == bilingual_geocode(pick, TRUE)
    IN  /\ pc[s] = "L1885"
        /\ IF ~r.found
           THEN reject(s, IF r.reason = "population" THEN "population"
                          ELSE "geo_error")
           ELSE IF normalize_city_name(r.geo.fr) \in tri_norms(triangle_names)
           THEN reject(s, "vertex_collision")
           ELSE IF normalize_city_name(r.geo.fr) \in used_norms(submissions)
           THEN reject(s, "city_used")
           ELSE /\ goto(s, "L1911")
                /\ locals' = [locals EXCEPT ![s] =
                      [player |-> @.player, geo |-> r.geo,
                       inside |-> inside_geodesic_triangle(triangle, r.geo.coord)]]
                /\ UNCHANGED <<config, leaderboard, leaderboard_saved, player_names, in_store, game, seats, seat_keys, notice>>

\* the entry put in front of the player's list instead of at its end
SubmissionPrepend(s) ==
    LET p == locals[s].player
    IN  /\ pc[s] = "L1911"
        /\ submissions' = [submissions EXCEPT ![p] =
                              <<make_entry(locals[s].geo, locals[s].inside)>> \o @]
        /\ goto(s, "L1912")
        /\ UNCHANGED <<config, leaderboard, leaderboard_saved, player_names, in_store, triangle,
                       triangle_labels, triangle_names, scores, turn,
                       submitted_counts, stage, seats, seat_keys, notice,
                       locals>>

\* line 1911
SubmissionAppend(s) ==
    LET p == locals[s].player
    IN  /\ pc[s] = "L1911"
        /\ submissions' = [submissions EXCEPT ![p] =
                              Append(@, make_entry(locals[s].geo, locals[s].inside))]
        /\ goto(s, "L1912")
        /\ UNCHANGED <<config, leaderboard, leaderboard_saved, player_names, in_store, triangle, triangle_labels, triangle_names,
                       scores, turn, submitted_counts, stage, seats,
                       seat_keys, notice, locals>>

\* the count of every player raised, not only the submitter's
SubmissionCountAll(s) ==
    /\ pc[s] = "L1912"
    /\ submitted_counts' = [q \in Players |-> submitted_counts[q] + 1]
    /\ goto(s, "L1913")
    /\ UNCHANGED <<config, leaderboard, leaderboard_saved, player_names, in_store, triangle,
                   triangle_labels, triangle_names, submissions, scores,
                   turn, stage, seats, seat_keys, notice, locals>>

\* line 1912
SubmissionCount(s) ==
    LET p == locals[s].player
    IN  /\ pc[s] = "L1912"
        /\ submitted_counts' = [submitted_counts EXCEPT ![p] = @ + 1]
        /\ goto(s, "L1913")
        /\ UNCHANGED <<config, leaderboard, leaderboard_saved, player_names, in_store, triangle, triangle_labels, triangle_names,
                       submissions, scores, turn, stage, seats, seat_keys,
                       notice, locals>>

\* lines 1913-1914
SubmissionScore(s) ==
    LET p == locals[s].player
    IN  /\ pc[s] = "L1913"
        /\ scores' = [scores EXCEPT ![p] =
                         @ + score_gain(locals[s].inside, locals[s].geo.pop)]
        /\ goto(s, "L1916")
        /\ UNCHANGED <<config, leaderboard, leaderboard_saved, player_names, in_store, triangle, triangle_labels, triangle_names,
                       submissions, turn, submitted_counts, stage, seats,
                       seat_keys, notice, locals>>

\* lines 1916-1918
SubmissionTurn(s) ==
    /\ pc[s] = "L1916"
    /\ turn' = next_turn(turn, players)
    /\ rerun(s)
    /\ UNCHANGED <<config, leaderboard, leaderboard_saved, player_names, in_store, triangle, triangle_labels, triangle_names,
                   submissions, scores, submitted_counts, stage, seats,
                   seat_keys, notice>>

(***************************************************************************)
(* Spec: the triangle stage of a new game, the statements of the runs of   *)
(* all sessions interleaved.  PlaySpec: the scoring stage of a game whose  *)
(* triangle random_triangle has drawn, interleaved in the same way.        *)
(***************************************************************************)
\* what the players type in the triangle stage, as the service answers it
VertexPicks == {Paris, Berlin, Madrid, Failure("no_match")}

\* what the players type in the scoring stage, as the service answers it
CityPicks == {Reims, London, ParisTx, Bron, Failure("no_match")}

Next ==
    \/ \E s \in Sessions, p \in Players, key \in KnownKeys, take \in BOOLEAN :
           ClaimSeat(s, p, key, take)
    \/ \E s \in Sessions, p \in Players, key \in KnownKeys : RandomOpen(s, p, key)
    \/ \E s \in Sessions, best \in Candidates : RandomResolve(s, best)
    \/ \E s \in Sessions : RandomSetTriangle(s)
    \/ \E s \in Sessions : RandomSetLabels(s)
    \/ \E s \in Sessions : RandomSetNames(s)
    \/ \E s \in Sessions : RandomSetStage(s)
    \/ \E s \in Sessions : RandomSetTurn(s)
    \/ \E s \in Sessions, p \in Players, key \in KnownKeys : TriangleRender(s, p, key)
    \/ \E s \in Sessions, p \in Players, key \in KnownKeys : TriangleOpen(s, p, key)
    \/ \E s \in Sessions, pick \in VertexPicks : VertexResolve(s, pick)
    \/ \E s \in Sessions : VertexAppend(s)
    \/ \E s \in Sessions : VertexLabel(s)
    \/ \E s \in Sessions : VertexName(s)
    \/ \E s \in Sessions : VertexTurn(s)
    \/ \E s \in Sessions : VertexTest(s)
    \/ \E s \in Sessions : VertexStage(s)

Spec == Init /\ [][Next]_vars

PlayNext ==
    \/ \E s \in Sessions, p \in Players, key \in KnownKeys, take \in BOOLEAN :
           ClaimSeat(s, p, key, take)
    \/ \E s \in Sessions, p \in Players, key \in KnownKeys : ScoringFinish(s, p, key)
    \/ \E s \in Sessions, p \in Players, key \in KnownKeys : ScoringRender(s, p, key)
    \/ \E s \in Sessions, p \in Players, key \in KnownKeys : ScoringEmpty(s, p, key)
    \/ \E s \in Sessions, p \in Players, key \in KnownKeys : ScoringOpen(s, p, key)
    \/ \E s \in Sessions, pick \in CityPicks : ScoringResolve(s, pick)
    \/ \E s \in Sessions : SubmissionAppend(s)
    \/ \E s \in Sessions : SubmissionCount(s)
    \/ \E s \in Sessions : SubmissionScore(s)
    \/ \E s \in Sessions : SubmissionTurn(s)

PlaySpec == PlayInit /\ [][PlayNext]_vars

(***************************************************************************)
(* Properties.  A step of session s is told by its position: pc[s] is the  *)
(* line the step executes.                                                 *)
(***************************************************************************)
Idle == \A s \in Sessions : pc[s] = "idle"

\* session s executes the statement at `line`
At(s, line) == pc[s] = line /\ pc'[s] # line

\* session s ends its run at `line` with a refusal
Refused(s, line) == pc[s] = line /\ pc'[s] = "idle"

AllEntries ==
    UNION {{<<q, i>> : i \in 1..Len(submissions[q])} : q \in Players}

EntryAt(qi) == submissions[qi[1]][qi[2]]

\* C1: every accepted vertex and every accepted submission of player p
\* changes the turn from p to (p mod N) + 1, and a refused input leaves the
\* turn unchanged.
C1_RoundRobin ==
    [][\A s \in Sessions :
          /\ (At(s, "L1846") \/ At(s, "L1916"))
                => /\ turn = locals[s].player
                   /\ turn' = (locals[s].player % players) + 1
          /\ (Refused(s, "L1835") \/ Refused(s, "L1885")) => turn' = turn
      ]_vars

\* C2: in the scoring stage a run whose input is refused (it does not
\* resolve, it names a city already submitted, it names a vertex) leaves the
\* triangle, the submissions, the scores, the submitted counts, the turn and
\* the stage as they were, from the press of the button to the refusal.
C2_RejectedInputs ==
    [][\A s \in Sessions :
          /\ (pc[s] = "idle" /\ pc'[s] = "L1885") => UNCHANGED game
          /\ Refused(s, "L1885") => UNCHANGED game
          /\ (pc[s] = "idle" /\ notice' # notice) => UNCHANGED game
      ]_vars

\* C2 happens: in a two-player game player 1 has played and the city
\* player 2 typed was refused as a vertex of the triangle.
C2_Witness ==
    /\ Idle
    /\ stage = "scoring"
    /\ players = 2
    /\ notice = "vertex_collision"
    /\ submitted_counts = <<1, 0>>
    /\ turn = 2

SameLetters(a, b) ==
    normalize_city_name(a) = normalize_city_name(b)

\* C3: no two recorded submissions have the same normalized name, and no
\* recorded submission has the normalized name of a vertex.
C3_NoDuplicates ==
    /\ \A x \in AllEntries, y \in AllEntries :
          x # y => ~SameLetters(submission_name_fr(EntryAt(x)),
                                submission_name_fr(EntryAt(y)))
    /\ \A x \in AllEntries, i \in 1..Len(triangle_names) :
          ~SameLetters(submission_name_fr(EntryAt(x)), triangle_names[i])

RECURSIVE InsidePopulation(_)
InsidePopulation(entries) ==
    IF entries = <<>> THEN 0
    ELSE (IF ~Head(entries).outside /\ Head(entries).population > 0
          THEN Head(entries).population ELSE 0)
         + InsidePopulation(Tail(entries))

\* C4: in every reachable state each player's score is the sum of the
\* populations of that player's recorded submissions that are inside the
\* triangle and have a population above 0.
C4_ScoreConsistency ==
    \A p \in Players : scores[p] = InsidePopulation(submissions[p])

\* C5: an accepted submission of player p appends exactly one entry to p's
\* submissions (no other player's), adds exactly 1 to p's submitted count
\* and passes the turn on, inside the triangle or not; p's score grows by
\* the population when the city is inside and its population is above 0,
\* and is unchanged otherwise.
C5_AcceptEffect ==
    [][\A s \in Sessions :
          LET p == locals[s].player
              e == submissions'[p][Len(submissions'[p])]
              inside == inside_geodesic_triangle(triangle, locals'[s].geo.coord)
          IN  /\ (pc[s] = "L1885" /\ pc'[s] = "L1911")
                    => locals'[s].inside = inside
              /\ At(s, "L1911")
                    => /\ Len(submissions'[p]) = Len(submissions[p]) + 1
                       /\ SubSeq(submissions'[p], 1, Len(submissions[p])) = submissions[p]
                       /\ e.name_fr = locals[s].geo.fr
                       /\ e.population = locals[s].geo.pop
                       /\ e.outside = ~locals[s].inside
                       /\ \A q \in Players \ {p} : submissions'[q] = submissions[q]
                       /\ pc'[s] = "L1912"
              /\ At(s, "L1912")
                    => /\ submitted_counts' =
                            [submitted_counts EXCEPT ![p] = submitted_counts[p] + 1]
                       /\ pc'[s] = "L1913"
              /\ At(s, "L1913")
                    => /\ scores' =
                            [scores EXCEPT ![p] =
                               IF locals[s].inside /\ locals[s].geo.pop > 0
                               THEN scores[p] + locals[s].geo.pop
                               ELSE scores[p]]
                       /\ pc'[s] = "L1916"
              /\ At(s, "L1916")
                    => turn' = (turn % players) + 1
      ]_vars

\* C5 happens: in a two-player game player 1 has submitted Reims, inside
\* the triangle, and player 2 London, outside it.
C5_Witness ==
    /\ Idle
    /\ players = 2
    /\ Len(submissions[1]) = 1
    /\ submissions[1][1].name_fr = Reims.fr
    /\ ~submissions[1][1].outside
    /\ Len(submissions[2]) = 1
    /\ submissions[2][1].name_fr = London.fr
    /\ submissions[2][1].outside
    /\ scores = <<182000, 0>>
    /\ submitted_counts = <<1, 1>>
    /\ turn = 1

\* C6: while the stage is the triangle definition the triangle has fewer
\* than 3 vertices: the third vertex and the scoring stage come together.
C6_ThirdVertex ==
    stage = "triangle" => Len(triangle) < 3

\* C7: the game leaves scoring only when the submitted counts add up to
\* rounds x players, and once they do no further submission is recorded.
C7_LeaveScoring ==
    [][ /\ (stage = "scoring" /\ stage' # "scoring")
             => Sum(submitted_counts) >= rounds * players
        /\ Sum(submitted_counts) >= rounds * players
             => submissions' = submissions
      ]_vars

\* C8: while the stage is scoring the player whose turn it is has a
\* submitted count below rounds.
C8_TurnHasRoundsLeft ==
    stage = "scoring" => submitted_counts[turn] < rounds

\* C9: every accepted vertex and every accepted submission is recorded
\* while the turn is still the recording player's, so that one value of the
\* turn admits one accepted mutation.
C9_CommitOnTurn ==
    [][\A s \in Sessions :
          (At(s, "L1843") \/ At(s, "L1911")) => turn = locals[s].player
      ]_vars

\* C10: in every reachable state each player's submissions are as many as
\* that player's submitted count: no state shows an entry appended whose
\* count is not yet updated.
C10_AllOrNothing ==
    \A p \in Players : Len(submissions[p]) = submitted_counts[p]

\* C11: once the stage is scoring the triangle's vertices, labels and names
\* never change again, whatever the sessions do, a random triangle started
\* in the triangle stage included.
C11_TriangleFrozen ==
    [][stage = "scoring"
          => UNCHANGED <<triangle, triangle_labels, triangle_names>>]_vars

(***************************************************************************)
(* SeatSpec: the head of the page script (lines 1640-1697) statement by    *)
(* statement, on a game just created.  locals[s] holds the request of the  *)
(* run: the player and the key of its URL, and whether "Take seat" is      *)
(* pressed.                                                                *)
(***************************************************************************)
\* a request arrives: player_id and seat_key are read (lines 1640-1653)
SeatOpen(s, p, key, take) ==
    /\ pc[s] = "idle"
    /\ in_store
    /\ triangle_names' = ensure_state_meta(triangle_names, triangle_labels)
    /\ goto(s, "L1679")
    /\ locals' = [locals EXCEPT ![s] =
                     [player |-> p, seat_key |-> key, take |-> take]]
    /\ UNCHANGED <<config, leaderboard, leaderboard_saved, player_names, in_store, game_rest, seats, seat_keys, notice>>

\* line 1679: claim_seat with the key of the request; lines 1680-1693 when
\* it fails ("Seat already taken", the run stops unless "Take seat" is
\* pressed); lines 1694-1697 when it succeeds
SeatClaim(s) ==
    LET r == locals[s]
        c == claim_seat(seats, seat_keys, r.player, s, r.seat_key, FALSE)
    IN  /\ pc[s] = "L1679"
        /\ seats' = c.seats
        /\ seat_keys' = c.seat_keys
        /\ IF ~c.ok
           THEN /\ notice' = "seat_taken"
                /\ IF r.take
                   THEN goto(s, "L1683") /\ UNCHANGED locals
                   ELSE rerun(s)
           ELSE /\ rerun(s)
                /\ UNCHANGED notice
        /\ UNCHANGED <<config, leaderboard, leaderboard_saved, player_names, in_store, game>>

\* line 1683: "Take seat" pressed, claim_seat with force=True
SeatTake(s) ==
    LET c == claim_seat(seats, seat_keys, locals[s].player, s, None, TRUE)
    IN  /\ pc[s] = "L1683"
        /\ seats' = c.seats
        /\ seat_keys' = c.seat_keys
        /\ rerun(s)
        /\ UNCHANGED <<config, leaderboard, leaderboard_saved, player_names, in_store, game, notice>>

SeatNext ==
    \/ \E s \in Sessions, p \in Players, key \in KnownKeys, take \in BOOLEAN :
           SeatOpen(s, p, key, take)
    \/ \E s \in Sessions : SeatClaim(s)
    \/ \E s \in Sessions : SeatTake(s)

SeatSpec == Init /\ [][SeatNext]_vars

\* C12: a session that does not hold an occupied seat becomes its holder
\* only by a request that carries the seat's key: every step that gives the
\* seat of another session to session s belongs to a run whose URL has
\* that key.
C12_KeyGatesSeat ==
    [][\A s \in Sessions, p \in Players :
          (seats[p] \notin {None, s} /\ seats'[p] = s)
              => locals[s].seat_key = seat_keys[p]
      ]_vars

(***************************************************************************)
(* Name entry stage (lines 2048-2084) and finished stage (lines 2089-2090, *)
(* render_results' "New game" at lines 2039-2043).                         *)
(***************************************************************************)
\* the slice bound of cleaned[:40]
NameCap == 40

\* cleaned[:40]
cut_name(cleaned) ==
    SubSeq(cleaned, 1, IF Len(cleaned) < NameCap THEN Len(cleaned) ELSE NameCap)

\* lines 2061-2063: the players without a name
missing(names) == {q \in DOMAIN names : names[q] = <<>>}

\* lines 2064-2066 without the test of the names
always_named(names) == TRUE

\* lines 2061-2064 find every player named
nobody_missing(names) == missing(names) = {}

\* lines 2048-2055: "Save name" pressed with a name that is not blank
NameOpen(s, p, key, name) ==
    /\ enter(s, p, key)
    /\ stage = "name_entry"
    /\ strip(name) # <<>>
    /\ goto(s, "L2056")
    /\ locals' = [locals EXCEPT ![s] = [player |-> p, cleaned |-> strip(name)]]
    /\ UNCHANGED <<config, leaderboard, leaderboard_saved, in_store, player_names, game_rest, notice>>

\* lines 2056-2057
NameWrite(s) ==
    /\ pc[s] = "L2056"
    /\ player_names' = [player_names EXCEPT ![locals[s].player] =
                           cut_name(locals[s].cleaned)]
    /\ rerun(s)
    /\ UNCHANGED <<config, leaderboard, leaderboard_saved, in_store, game, seats, seat_keys, notice>>

\* lines 2061-2064: the test of the names, by a run that saved nothing
name_test(s, p) ==
    IF nobody_missing(player_names)
    THEN goto(s, "L2065") /\ locals' = [locals EXCEPT ![s] = [player |-> p]]
    ELSE UNCHANGED <<pc, locals>>

\* lines 2048-2064: "Save name" pressed on a blank name, the warning of
\* line 2059, then the test of the names
NameBlank(s, p, key, name) ==
    /\ enter(s, p, key)
    /\ stage = "name_entry"
    /\ strip(name) = <<>>
    /\ notice' = "enter_name"
    /\ name_test(s, p)
    /\ UNCHANGED <<config, leaderboard, leaderboard_saved, in_store, player_names, game_rest>>

\* lines 2048-2064 of a run with no button pressed
NameRender(s, p, key) ==
    /\ enter(s, p, key)
    /\ stage = "name_entry"
    /\ name_test(s, p)
    /\ UNCHANGED <<config, leaderboard, leaderboard_saved, in_store, player_names, game_rest, notice>>

\* lines 2065-2066
NameFinish(s) ==
    /\ pc[s] = "L2065"
    /\ stage' = "finished"
    /\ rerun(s)
    /\ UNCHANGED <<config, leaderboard, leaderboard_saved, in_store, player_names, triangle, triangle_labels,
                   triangle_names, submissions, scores, turn,
                   submitted_counts, seats, seat_keys, notice>>

\* lines 2089-2090: the results are shown
FinishedRender(s, p, key) ==
    /\ enter(s, p, key)
    /\ stage = "finished"
    /\ UNCHANGED <<config, leaderboard, leaderboard_saved, in_store, player_names, game_rest, notice, pc, locals>>

\* lines 2039-2043: "New game" pressed on the results
NewGame(s, p, key) ==
    /\ enter(s, p, key)
    /\ stage = "finished"
    /\ in_store' = FALSE
    /\ UNCHANGED <<config, leaderboard, leaderboard_saved, player_names, game_rest, notice, pc, locals>>

\* the names the players type
NamePicks == {<<>>, <<" ">>, <<"A">>, <<" ", "B", " ">>}

(***************************************************************************)
(* LifeSpec: a game of one round from "Create game" to "New game", its     *)
(* triangle drawn by random_triangle (Spec has the typed vertices), the    *)
(* statements of the runs of all sessions interleaved.                     *)
(***************************************************************************)
\* what the players type in the scoring stage of LifeSpec
LifeCityPicks == {Reims, London, Failure("no_match")}

LifeInit ==
    /\ \E n \in 1..MaxPlayers : Stored(create_game(n, 1, "s1"))
    /\ notice = "none"
    /\ leaderboard = <<>>
    /\ leaderboard_saved = FALSE
    /\ pc = [s \in Sessions |-> "idle"]
    /\ locals = [s \in Sessions |-> NoLocals]

LifeNext ==
    \/ \E s \in Sessions, p \in Players, key \in KnownKeys, take \in BOOLEAN :
           ClaimSeat(s, p, key, take)
    \/ \E s \in Sessions, p \in Players, key \in KnownKeys : RandomOpen(s, p, key)
    \/ \E s \in Sessions, best \in Candidates : RandomResolve(s, best)
    \/ \E s \in Sessions : RandomSetTriangle(s)
    \/ \E s \in Sessions : RandomSetLabels(s)
    \/ \E s \in Sessions : RandomSetNames(s)
    \/ \E s \in Sessions : RandomSetStage(s)
    \/ \E s \in Sessions : RandomSetTurn(s)
    \/ \E s \in Sessions, p \in Players, key \in KnownKeys : TriangleRender(s, p, key)
    \/ \E s \in Sessions, p \in Players, key \in KnownKeys : ScoringFinish(s, p, key)
    \/ \E s \in Sessions, p \in Players, key \in KnownKeys : ScoringRender(s, p, key)
    \/ \E s \in Sessions, p \in Players, key \in KnownKeys : ScoringEmpty(s, p, key)
    \/ \E s \in Sessions, p \in Players, key \in KnownKeys : ScoringOpen(s, p, key)
    \/ \E s \in Sessions, pick \in LifeCityPicks : ScoringResolve(s, pick)
    \/ \E s \in Sessions : SubmissionAppend(s)
    \/ \E s \in Sessions : SubmissionCount(s)
    \/ \E s \in Sessions : SubmissionScore(s)
    \/ \E s \in Sessions : SubmissionTurn(s)
    \/ \E s \in Sessions, p \in Players, key \in KnownKeys, name \in NamePicks :
           NameOpen(s, p, key, name)
    \/ \E s \in Sessions : NameWrite(s)
    \/ \E s \in Sessions, p \in Players, key \in KnownKeys, name \in NamePicks :
           NameBlank(s, p, key, name)
    \/ \E s \in Sessions, p \in Players, key \in KnownKeys : NameRender(s, p, key)
    \/ \E s \in Sessions : NameFinish(s)
    \/ \E s \in Sessions, p \in Players, key \in KnownKeys : FinishedRender(s, p, key)
    \/ \E s \in Sessions, p \in Players, key \in KnownKeys : NewGame(s, p, key)

LifeSpec == LifeInit /\ [][LifeNext]_vars

\* the place of a stage in triangle -> scoring -> name_entry -> finished
stage_rank(stg) ==
    CASE stg = "triangle" -> 1
      [] stg = "scoring" -> 2
      [] stg = "name_entry" -> 3
      [] stg = "finished" -> 4

\* C13: every step that changes the stage moves it to the next stage of
\* triangle -> scoring -> name_entry -> finished: never backwards, never
\* over a stage.
C13_StageForward ==
    [][stage' # stage => stage_rank(stage') = stage_rank(stage) + 1]_vars

C15_FinishedTerminal ==
    [][stage = "finished"
          => /\ UNCHANGED <<stage, triangle, triangle_labels, triangle_names,
                            submissions, scores, submitted_counts, turn,
                            player_names>>
             /\ in_store' # in_store
                   => \E s \in Sessions, p \in Players, key \in KnownKeys :
                         NewGame(s, p, key)
      ]_vars

\* C16: a vertex whose resolved name has the normalized name of a vertex
\* already chosen is refused and the refusal leaves the triangle, the
\* labels, the names, the turn and the stage as they were; so the names of
\* the vertices are pairwise distinct after normalization.
C16_DistinctVertices ==
    /\ [](\A i \in 1..Len(triangle_names), j \in 1..Len(triangle_names) :
             i # j => ~SameLetters(triangle_names[i], triangle_names[j]))
    /\ [][\A s \in Sessions :
             /\ Refused(s, "L1835") => UNCHANGED game
             /\ (pc[s] = "L1835" /\ pc'[s] = "L1843")
                   => normalize_city_name(locals'[s].geo.fr)
                         \notin tri_norms(triangle_names)
         ]_vars

\* C17: in every step each player's submissions either stay as they are or
\* grow at the end by one entry, the entry of the accepted input of a run of
\* that player; no entry already there is changed, removed or moved.
C17_AppendOnly ==
    [][\A p \in Players :
          \/ submissions'[p] = submissions[p]
          \/ /\ Len(submissions'[p]) = Len(submissions[p]) + 1
             /\ SubSeq(submissions'[p], 1, Len(submissions[p])) = submissions[p]
             /\ \E s \in Sessions :
                   /\ At(s, "L1911")
                   /\ locals[s].player = p
                   /\ submissions'[p][Len(submissions'[p])].name_fr
                         = locals[s].geo.fr
             /\ \A q \in Players \ {p} : submissions'[q] = submissions[q]
      ]_vars

\* C17 happens: a player has submitted Reims and then London, and they are
\* recorded in that order.
C17_Witness ==
    /\ Idle
    /\ rounds = 2
    /\ Len(submissions[1]) = 2
    /\ submissions[1][1].name_fr = Reims.fr
    /\ submissions[1][2].name_fr = London.fr

(***************************************************************************)
(* random_triangle's retry loop (lines 1774-1797) iteration by iteration.  *)
(* RandomSpec: the calls of random_triangle on a game just created, one    *)
(* call at a time.                                                         *)
(***************************************************************************)
Cairo == Geo(300444, 312357, <<"L","e"," ","C","a","i","r","e">>,
             <<"C","a","i","r","o">>, 9540000)

\* DIFFICULTY_LEVELS
DIFFICULTY_LEVELS == {"Easy", "Medium", "Hard"}

\* GEOD.inv(...) / 1000.0 between the cities of the candidate sets, in km
EdgeKmTable ==
    {<<Paris.coord, Berlin.coord, 880>>, <<Berlin.coord, Madrid.coord, 1871>>,
     <<Madrid.coord, Paris.coord, 1053>>, <<Paris.coord, Cairo.coord, 3213>>,
     <<Cairo.coord, Madrid.coord, 3356>>, <<Berlin.coord, Cairo.coord, 2891>>,
     <<Coord(0, 0), Coord(0, 300000), 3340>>,
     <<Coord(0, 0), Coord(0, 450000), 5009>>,
     <<Coord(0, 0), Coord(0, 900000), 10019>>,
     <<Coord(0, 0), Coord(0, 1800000), 20004>>,
     <<Coord(0, 0), Coord(0, -900000), 10019>>,
     <<Coord(0, 0), Coord(0, -1000000), 11132>>,
     <<Coord(0, 0), Coord(900000, 0), 10002>>,
     <<Coord(0, 0), Coord(-900000, 0), 10002>>,
     <<Coord(0, 0), Coord(450000, 450000), 6662>>,
     <<Coord(0, 0), Paris.coord, 5418>>,
     <<Coord(0, 0), Berlin.coord, 5954>>,
     <<Coord(0, 0), Madrid.coord, 4492>>,
     <<Coord(0, 0), Reims.coord, 5472>>,
     <<Coord(0, 300000), Coord(0, 450000), 1670>>,
     <<Coord(0, 300000), Coord(0, 900000), 6679>>,
     <<Coord(0, 300000), Coord(0, 1800000), 16698>>,
     <<Coord(0, 300000), Coord(0, -900000), 13358>>,
     <<Coord(0, 300000), Coord(0, -1000000), 14472>>,
     <<Coord(0, 300000), Coord(900000, 0), 10002>>,
     <<Coord(0, 300000), Coord(-900000, 0), 10002>>,
     <<Coord(0, 300000), Coord(450000, 450000), 5200>>,
     <<Coord(0, 300000), Paris.coord, 6029>>,
     <<Coord(0, 300000), Berlin.coord, 6024>>,
     <<Coord(0, 300000), Madrid.coord, 5626>>,
     <<Coord(0, 300000), Reims.coord, 5997>>,
     <<Coord(0, 450000), Coord(0, 900000), 5009>>,
     <<Coord(0, 450000), Coord(0, 1800000), 15028>>,
     <<Coord(0, 450000), Coord(0, -900000), 15028>>,
     <<Coord(0, 450000), Coord(0, -1000000), 16141>>,
     <<Coord(0, 450000), Coord(900000, 0), 10002>>,
     <<Coord(0, 450000), Coord(-900000, 0), 10002>>,
     <<Coord(0, 450000), Coord(450000, 450000), 4985>>,
     <<Coord(0, 450000), Paris.coord, 6778>>,
     <<Coord(0, 450000), Berlin.coord, 6522>>,
     <<Coord(0, 450000), Madrid.coord, 6647>>,
     <<Coord(0, 450000), Reims.coord, 6713>>,
     <<Coord(0, 900000), Coord(0, 1800000), 10019>>,
     <<Coord(0, 900000), Coord(0, -900000), 20004>>,
     <<Coord(0, 900000), Coord(0, -1000000), 18924>>,
     <<Coord(0, 900000), Coord(900000, 0), 10002>>,
     <<Coord(0, 900000), Coord(-900000, 0), 10002>>,
     <<Coord(0, 900000), Coord(450000, 450000), 6662>>,
     <<Coord(0, 900000), Paris.coord, 9837>>,
     <<Coord(0, 900000), Berlin.coord, 9103>>,
     <<Coord(0, 900000), Madrid.coord, 10326>>,
     <<Coord(0, 900000), Reims.coord, 9716>>,
     <<Coord(0, 1800000), Coord(0, -900000), 10019>>,
     <<Coord(0, 1800000), Coord(0, -1000000), 8906>>,
     <<Coord(0, 1800000), Coord(900000, 0), 10002>>,
     <<Coord(0, 1800000), Coord(-900000, 0), 10002>>,
     <<Coord(0, 1800000), Coord(450000, 450000), 13353>>,
     <<Coord(0, 1800000), Paris.coord, 14586>>,
     <<Coord(0, 1800000), Berlin.coord, 14051>>,
     <<Coord(0, 1800000), Madrid.coord, 15513>>,
     <<Coord(0, 1800000), Reims.coord, 14532>>,
     <<Coord(0, -900000), Coord(0, -1000000), 1113>>,
     <<Coord(0, -900000), Coord(900000, 0), 10002>>,
     <<Coord(0, -900000), Coord(-900000, 0), 10002>>,
     <<Coord(0, -900000), Coord(450000, 450000), 13353>>,
     <<Coord(0, -900000), Paris.coord, 10182>>,
     <<Coord(0, -900000), Berlin.coord, 10913>>,
     <<Coord(0, -900000), Madrid.coord, 9697>>,
     <<Coord(0, -900000), Reims.coord, 10302>>,
     <<Coord(0, -1000000), Coord(900000, 0), 10002>>,
     <<Coord(0, -1000000), Coord(-900000, 0), 10002>>,
     <<Coord(0, -1000000), Coord(450000, 450000), 13953>>,
     <<Coord(0, -1000000), Paris.coord, 10911>>,
     <<Coord(0, -1000000), Berlin.coord, 11568>>,
     <<Coord(0, -1000000), Madrid.coord, 10546>>,
     <<Coord(0, -1000000), Reims.coord, 11024>>,
     <<Coord(900000, 0), Coord(-900000, 0), 20004>>,
     <<Coord(900000, 0), Coord(450000, 450000), 5017>>,
     <<Coord(900000, 0), Paris.coord, 4588>>,
     <<Coord(900000, 0), Berlin.coord, 4181>>,
     <<Coord(900000, 0), Madrid.coord, 5526>>,
     <<Coord(900000, 0), Reims.coord, 4544>>,
     <<Coord(-900000, 0), Coord(450000, 450000), 14987>>,
     <<Coord(-900000, 0), Paris.coord, 15416>>,
     <<Coord(-900000, 0), Berlin.coord, 15823>>,
     <<Coord(-900000, 0), Madrid.coord, 14478>>,
     <<Coord(-900000, 0), Reims.coord, 15460>>,
     <<Coord(450000, 450000), Paris.coord, 3233>>,
     <<Coord(450000, 450000), Berlin.coord, 2445>>,
     <<Coord(450000, 450000), Madrid.coord, 3962>>,
     <<Coord(450000, 450000), Reims.coord, 3105>>,
     <<Paris.coord, Reims.coord, 131>>,
     <<Berlin.coord, Reims.coord, 752>>,
     <<Madrid.coord, Reims.coord, 1156>>,
     <<Coord(0, 0), Coord(0, 235808), 2625>>,
     <<Coord(0, 235808), Coord(0, 471616), 2625>>,
     <<Coord(0, 0), Coord(0, 471616), 5250>>,
     <<Coord(0, 0), Coord(0, 235785), 2625>>,
     <<Coord(0, 235785), Coord(0, 471570), 2625>>,
     <<Coord(0, 0), Coord(0, 471570), 5249>>,
     <<Coord(0, 0), Coord(0, 134747), 1500>>,
     <<Coord(0, 134747), Coord(0, 269495), 1500>>,
     <<Coord(0, 0), Coord(0, 269495), 3000>>,
     <<Coord(0, 0), Coord(0, 134724), 1500>>,
     <<Coord(0, 134724), Coord(0, 269449), 1500>>,
     <<Coord(0, 0), Coord(0, 269449), 2999>>}

geod_inv_km(a, b) ==
    (CHOOSE t \in EdgeKmTable :
        (t[1] = a /\ t[2] = b) \/ (t[1] = b /\ t[2] = a))[3]

\* triangle_edge_avg_km
triangle_edge_avg_km(coords) ==
    (geod_inv_km(coords[1], coords[2]) + geod_inv_km(coords[2], coords[3])
        + geod_inv_km(coords[3], coords[1])) \div 3

\* every level accepts every triangle
any_difficulty(coords, difficulty) == TRUE

\* difficulty_ok
difficulty_ok(coords, difficulty) ==
    LET avg_km == triangle_edge_avg_km(coords)
    IN  CASE difficulty = "Easy" -> avg_km >= 3500
          [] difficulty = "Medium" -> 2000 <= avg_km /\ avg_km < 3500
          [] difficulty = "Hard" -> avg_km < 2000
          [] OTHER -> TRUE

\* range(8)
MaxAttempts == 8

\* the loop that never runs out of attempts
loop_without_end(n) == FALSE

\* the for loop of line 1779 is exhausted after the n-th iteration
loop_done(n) == n >= MaxAttempts

\* all(data)
all_resolved(data) == \A i \in 1..Len(data) : data[i].found

\* the candidate sets pick_triangle_candidates draws, as the look-up of
\* lines 1783-1785 answers them
RandomPicks ==
    {<<Paris, Berlin, Madrid>>, <<Paris, Cairo, Madrid>>,
     <<Paris, Failure("no_match"), Madrid>>}

\* lines 1818-1823 and 1775-1779: random_triangle is called and the loop
\* starts; no other call is in progress
RandomStart(s, p, key, level) ==
    /\ enter(s, p, key)
    /\ stage = "triangle"
    /\ p = 1
    /\ \A t \in Sessions \ {s} : pc[t] = "idle"
    /\ goto(s, "L1780")
    /\ locals' = [locals EXCEPT ![s] =
                     [player |-> p, level |-> level, attempts |-> 0, best |-> <<>>]]
    /\ UNCHANGED <<config, leaderboard, leaderboard_saved, player_names, in_store, game_rest, notice>>

\* lines 1780-1786: three candidates are drawn and looked up
RandomDraw(s, picks) ==
    LET l == locals[s]
    IN  /\ pc[s] = "L1780"
        /\ goto(s, "L1787")
        /\ locals' = [locals EXCEPT ![s] =
               [player |-> l.player, level |-> l.level, attempts |-> l.attempts,
                best |-> l.best,
                data |-> [i \in 1..3 |-> bilingual_geocode(picks[i], FALSE)]]]
        /\ UNCHANGED <<config, leaderboard, leaderboard_saved, player_names, in_store, game, seats, seat_keys,
                       notice>>

\* lines 1787-1794: the candidate set is skipped, taken (break) or kept as
\* the fallback; then the next iteration, or the end of the loop
RandomJudge(s) ==
    LET l == locals[s]
        cand == [i \in 1..3 |-> l.data[i].geo]
        taken == /\ all_resolved(l.data)
                 /\ difficulty_ok([i \in 1..3 |-> cand[i].coord], l.level)
        n == l.attempts + 1
    IN  /\ pc[s] = "L1787"
        /\ IF taken
           THEN /\ goto(s, "L1795")
                /\ locals' = [locals EXCEPT ![s] =
                       [player |-> l.player, level |-> l.level,
                        attempts |-> n, best |-> cand]]
           ELSE /\ goto(s, IF loop_done(n) THEN "L1795" ELSE "L1780")
                /\ locals' = [locals EXCEPT ![s] =
                       [player |-> l.player, level |-> l.level, attempts |-> n,
                        best |-> IF all_resolved(l.data) /\ l.best = <<>>
                                 THEN cand ELSE l.best]]
        /\ UNCHANGED <<config, leaderboard, leaderboard_saved, player_names, in_store, game, seats, seat_keys,
                       notice>>

\* lines 1795-1801: without a candidate set the error is shown and the call
\* returns; with one the writes follow
RandomEnd(s) ==
    /\ pc[s] = "L1795"
    /\ IF locals[s].best = <<>>
       THEN reject(s, "geo_error")
       ELSE /\ goto(s, "L1802")
            /\ locals' = [locals EXCEPT ![s] =
                             [player |-> @.player, best |-> @.best]]
            /\ UNCHANGED <<config, leaderboard, leaderboard_saved, player_names, in_store, game, seats,
                           seat_keys, notice>>

RandomNext ==
    \/ \E s \in Sessions, p \in Players, key \in KnownKeys,
          level \in DIFFICULTY_LEVELS : RandomStart(s, p, key, level)
    \/ \E s \in Sessions, picks \in RandomPicks : RandomDraw(s, picks)
    \/ \E s \in Sessions : RandomJudge(s)
    \/ \E s \in Sessions : RandomEnd(s)
    \/ \E s \in Sessions : RandomSetTriangle(s)
    \/ \E s \in Sessions : RandomSetLabels(s)
    \/ \E s \in Sessions : RandomSetNames(s)
    \/ \E s \in Sessions : RandomSetStage(s)
    \/ \E s \in Sessions : RandomSetTurn(s)

RandomSpec == Init /\ [][RandomNext]_vars

\* the coordinates of a candidate set
coords_of(best) == [i \in 1..Len(best) |-> best[i].coord]

\* session s is judging a candidate set whose three cities all resolved
JudgingResolved(s) ==
    pc[s] = "L1787" /\ all_resolved(locals[s].data)

\* the candidate set session s is judging
Judged(s) == [i \in 1..3 |-> locals[s].data[i].geo]

C19_FirstInBand ==
    /\ [](\A s \in Sessions :
             pc[s] \in {"L1780", "L1787"} => locals[s].attempts < 8)
    /\ [][\A s \in Sessions :
             /\ (/\ JudgingResolved(s)
                 /\ difficulty_ok(coords_of(Judged(s)), locals[s].level))
                   => /\ pc'[s] = "L1795"
                      /\ locals'[s].best = Judged(s)
             /\ pc[s] = "L1795"
                   => /\ pc'[s] \in {"L1795", "L1802", "idle"}
                      /\ pc'[s] # "idle" => locals'[s].best = locals[s].best
             /\ At(s, "L1802") => triangle' = coords_of(locals[s].best)
             /\ At(s, "L1803")
                   => triangle_labels' =
                         [i \in 1..3 |-> make_label(locals[s].best[i].fr,
                                                    locals[s].best[i].local)]
             /\ At(s, "L1804")
                   => triangle_names' = [i \in 1..3 |-> locals[s].best[i].fr]
             /\ pc[s] \in {"L1802", "L1803", "L1804", "L1810", "L1811"}
                   => pc'[s] \notin {"L1780", "L1787", "L1795"}
         ]_vars

\* C19 happens: with the level Medium the first candidate set was out of
\* the band, the second did not resolve and the third, Paris - Cairo -
\* Madrid, is in the band: the loop has stopped with it.
C19_Witness ==
    \E s \in Sessions :
        /\ pc[s] = "L1795"
        /\ locals[s].level = "Medium"
        /\ locals[s].attempts = 3
        /\ locals[s].best = <<Paris, Cairo, Madrid>>

\* C20: a call of random_triangle in which no attempt resolved its three
\* cities shows the error and returns, and no step of it, from the first
\* attempt to the error, changes the triangle, the labels, the names, the
\* stage or the turn.
C20_FailureKeepsGame ==
    [][\A s \in Sessions :
          /\ pc[s] \in {"L1780", "L1787", "L1795"}
                => UNCHANGED <<triangle, triangle_labels, triangle_names, stage,
                               turn, submissions, scores, submitted_counts>>
          /\ (pc[s] = "L1795" /\ locals[s].best = <<>>)
                => /\ locals[s].attempts = 8
                   /\ pc'[s] \in {"L1795", "idle"}
                   /\ pc'[s] = "idle" => notice' = "geo_error"
      ]_vars

\* C20 happens: in a two-player game the eight attempts of a call failed,
\* the error is shown and the game is as it was created.
C20_Witness ==
    /\ Idle
    /\ players = 2
    /\ notice = "geo_error"
    /\ stage = "triangle"
    /\ triangle = <<>>
    /\ turn = 1

(***************************************************************************)
(* The reference city dataset and the best possible score (lines 825-904). *)
(* GeonamesCities is what geonamescache answers, in the order of its       *)
(* dictionary; city_catalog keeps the rows with a population and a name    *)
(* and sorts them by population, largest first.                            *)
(***************************************************************************)
City(geo, country) ==
    [pop |-> geo.pop, name |-> geo.local, country |-> country,
     coord |-> geo.coord]

Nameless == [pop |-> 90000, name |-> <<>>, country |-> "FR",
             coord |-> Lyon.coord]

GeonamesCities ==
    << City(Reims, "FR"), City(ParisTx, "US"), City(London, "GB"),
       City(Bron, "FR"), City(OrleansCa, "CA"), City(Paris, "FR"),
       Nameless, City(Madrid, "ES"), City(OrleansFr, "FR"),
       City(Lyon, "FR"), City(Berlin, "DE") >>

\* the rows in the order of the dataset
unsorted(rows) == rows

\* list.sort(key=population, reverse=True): stable, largest first
RECURSIVE sort_by_pop(_)
sort_by_pop(rows) ==
    IF rows = <<>> THEN <<>>
    ELSE LET n == Len(rows)
             rest == sort_by_pop(SubSeq(rows, 1, n - 1))
             k == Cardinality({i \in 1..(n - 1) : rest[i].pop >= rows[n].pop})
         IN  SubSeq(rest, 1, k) \o <<rows[n]>> \o SubSeq(rest, k + 1, n - 1)

city_catalog ==
    sort_by_pop(SelectSeq(GeonamesCities,
                          LAMBDA city : city.pop > 0 /\ city.name # <<>>))

\* the loop of lines 895-903 from row i of the catalog on
RECURSIVE best_loop(_, _, _, _, _)
best_loop(tri, count, i, results, used) ==
    IF i > Len(city_catalog) \/ Len(results) >= count THEN results
    ELSE LET row == city_catalog[i]
             norm == normalize_city_name(row.name)
         IN  IF norm \in used
             THEN best_loop(tri, count, i + 1, results, used)
             ELSE IF inside_geodesic_triangle(tri, row.coord)
                  THEN best_loop(tri, count, i + 1, Append(results, row),
                                 used \cup {norm})
                  ELSE best_loop(tri, count, i + 1, results, used)

best_cities_for_triangle(tri_key, count, excluded_norms) ==
    IF count <= 0 THEN <<>>
    ELSE IF city_catalog = <<>> THEN <<>>
    ELSE best_loop(tri_key, count, 1, <<>>, excluded_norms)

(***************************************************************************)
(* BestSpec: one call of best_cities_for_triangle at a time, on arguments  *)
(* drawn from BestTriangles, BestCounts and BestExcluded.                  *)
(***************************************************************************)
NorthPole == Coord(900000, 0)
SouthPole == Coord(-900000, 0)
Eq0 == Coord(0, 0)
Eq30 == Coord(0, 300000)
Eq45 == Coord(0, 450000)
Eq90 == Coord(0, 900000)
Eq180 == Coord(0, 1800000)
EqW90 == Coord(0, -900000)
EqW100 == Coord(0, -1000000)
Mid45 == Coord(450000, 450000)

BestTriangles ==
    { <<Paris.coord, Berlin.coord, Madrid.coord>>,
      <<London.coord, Berlin.coord, Madrid.coord>>,
      <<NorthPole, EqW100, Eq30>>,
      <<NorthPole, Eq0, Eq90>>,
      <<NorthPole, Eq0, Eq180>> }

MaxCount == 8
BestCounts == (0 - 1)..MaxCount

BestExcluded ==
    SUBSET {normalize_city_name(Paris.fr), normalize_city_name(Reims.fr),
            normalize_city_name(London.fr)}

BestInit ==
    /\ Stored(create_game(1, 1, "s1"))
    /\ notice = "none"
    /\ leaderboard = <<>>
    /\ leaderboard_saved = FALSE
    /\ \E tri \in BestTriangles, count \in BestCounts, excl \in BestExcluded :
           /\ pc = [s \in Sessions |-> IF s = "s1" THEN "L881" ELSE "idle"]
           /\ locals = [s \in Sessions |->
                          IF s = "s1"
                          THEN [tri_key |-> tri, count |-> count,
                                excluded_norms |-> excl]
                          ELSE NoLocals]

\* lines 881-904: the call returns its list
BestReturn(s) ==
    /\ pc[s] = "L881"
    /\ goto(s, "L904")
    /\ locals' = [locals EXCEPT ![s] =
                    [tri_key |-> locals[s].tri_key, count |-> locals[s].count,
                     excluded_norms |-> locals[s].excluded_norms,
                     results |-> best_cities_for_triangle(
                                     locals[s].tri_key, locals[s].count,
                                     locals[s].excluded_norms)]]
    /\ UNCHANGED <<config, leaderboard, leaderboard_saved, game, seats, seat_keys, player_names, in_store,
                   notice>>

BestNext == \E s \in Sessions : BestReturn(s)

BestSpec == BestInit /\ [][BestNext]_vars

\* the rows of the catalog that are inside the triangle and not excluded
Eligible(tri, excl) ==
    {i \in 1..Len(city_catalog) :
        /\ inside_geodesic_triangle(tri, city_catalog[i].coord)
        /\ normalize_city_name(city_catalog[i].name) \notin excl}

\* of the eligible rows, the first one of each normalized name
FirstOfName(tri, excl) ==
    {i \in Eligible(tri, excl) :
        \A j \in Eligible(tri, excl) :
            j < i => normalize_city_name(city_catalog[j].name)
                       # normalize_city_name(city_catalog[i].name)}

Min(a, b) == IF a <= b THEN a ELSE b

Returned(s) == pc[s] = "L904"

\* C21 as stated: the list has min(N, k) cities, k the number of reference
\* cities inside the triangle whose normalized name is not excluded.
C21_AsManyAsCities ==
    \A s \in Sessions :
        Returned(s) =>
            LET l == locals[s]
            IN  Len(l.results)
                  = IF l.count <= 0 THEN 0
                    ELSE Min(l.count,
                             Cardinality(Eligible(l.tri_key, l.excluded_norms)))

\* C21: best_cities_for_triangle returns the min(N, k) most populated of
\* the k cities that remain when, of the reference cities inside the
\* triangle whose normalized name is not excluded, only the most populated
\* city of each normalized name is kept; the list is in descending
\* population order and repeats no normalized name; it is empty for N <= 0.
C21_BestSelection ==
    \A s \in Sessions :
        Returned(s) =>
            LET l == locals[s]
                res == l.results
                reps == FirstOfName(l.tri_key, l.excluded_norms)
            IN  /\ l.count <= 0 => res = <<>>
                /\ l.count > 0 => Len(res) = Min(l.count, Cardinality(reps))
                /\ \A m \in 1..Len(res) :
                       \E i \in reps :
                           /\ res[m] = city_catalog[i]
                           /\ Cardinality({j \in reps : j < i}) = m - 1
                /\ \A m \in 1..Len(res) :
                       \A i \in Eligible(l.tri_key, l.excluded_norms) :
                           city_catalog[i].pop > res[m].pop =>
                               \E n \in 1..m :
                                   normalize_city_name(res[n].name)
                                     = normalize_city_name(city_catalog[i].name)
                /\ \A m, n \in 1..Len(res) :
                       m < n =>
                           /\ res[m].pop >= res[n].pop
                           /\ normalize_city_name(res[m].name)
                                # normalize_city_name(res[n].name)

\* C21 happens: two cities called Paris and two called Orleans are among the
\* nine inside the triangle, eight cities are asked for and the list holds
\* the seven most populated cities of distinct names, one Paris only.
C21_Witness ==
    \E s \in Sessions :
        /\ Returned(s)
        /\ locals[s].count = 8
        /\ Len(locals[s].results) = 7
        /\ Cardinality(Eligible(locals[s].tri_key,
                                locals[s].excluded_norms)) = 9
        /\ Cardinality({m \in 1..7 :
                           locals[s].results[m].name = Paris.local}) = 1

(***************************************************************************)
(* render_results (lines 1925-2043), from the triangle to the best         *)
(* possible answers of lines 1974-1979.                                    *)
(***************************************************************************)
\* round(x, 6) of a coordinate in units of 1/10000 degree: the value in
\* units of 1/1000000 degree, rounded to an integer
round6(x) == (x * 100) \div 100

tri_key == [i \in 1..Len(triangle) |->
               Coord(round6(triangle[i].lat), round6(triangle[i].lon))]

\* nothing is excluded
no_norms(names) == {}

\* line 1975: the normalized names of the vertices
excluded_norms(names) == tri_norms(names)

\* line 1978
best_per_player ==
    best_cities_for_triangle(tri_key, rounds, excluded_norms(triangle_names))

\* a game played to its end, one run after the other: the triangle `best`,
\* cities[t] accepted in turn t, every player named
finished_game(n, r, best, cities) ==
    LET st == random_triangle(create_game(n, r, "s1"), best)
        city(q, k) == cities[(k - 1) * n + q]
        is_inside(c) == inside_geodesic_triangle(st.triangle, c.coord)
    IN  [st EXCEPT
           !.submissions = [q \in 1..n |->
               [k \in 1..r |-> make_entry(city(q, k), is_inside(city(q, k)))]],
           !.scores = [q \in 1..n |->
               Sum([k \in 1..r |->
                      score_gain(is_inside(city(q, k)), city(q, k).pop)])],
           !.submitted_counts = [q \in 1..n |-> r],
           !.player_names = [q \in 1..n |-> <<"A">>],
           !.stage = "finished"]

ResultTriangles == {<<Paris, Berlin, Madrid>>, <<London, Berlin, Madrid>>}

ResultCities == {Reims, OrleansFr, Lyon, London}

\* the cities of a finished game: no vertex name, no name twice
Playable(best, cities) ==
    /\ \A t \in DOMAIN cities :
           normalize_city_name(cities[t].fr)
             \notin {normalize_city_name(best[i].fr) : i \in 1..3}
    /\ \A t, u \in DOMAIN cities : t # u => cities[t] # cities[u]

ResultsInit ==
    /\ \E n \in 1..MaxPlayers, r \in 1..MaxRounds, best \in ResultTriangles :
           \E cities \in [1..(n * r) -> ResultCities] :
               /\ Playable(best, cities)
               /\ Stored(finished_game(n, r, best, cities))
    /\ notice = "none"
    /\ leaderboard = <<>>
    /\ leaderboard_saved = FALSE
    /\ pc = [s \in Sessions |-> "idle"]
    /\ locals = [s \in Sessions |-> NoLocals]

\* lines 2089-2090 and 1926-1979: the results are shown down to the best
\* possible answers
ResultsBest(s, p, key) ==
    /\ enter(s, p, key)
    /\ stage = "finished"
    /\ goto(s, "L1979")
    /\ locals' = [locals EXCEPT ![s] =
                    [player |-> p, best_per_player |-> best_per_player]]
    /\ UNCHANGED <<config, leaderboard, leaderboard_saved, in_store, player_names, game_rest, notice>>

\* lines 1980-2043: the rest of the page, when line 2012 finds nothing to
\* save (no best list, or the results of the game saved already)
ResultsDone(s) ==
    /\ pc[s] = "L1979"
    /\ locals[s].best_per_player = <<>> \/ leaderboard_saved
    /\ rerun(s)
    /\ UNCHANGED <<config, leaderboard, leaderboard_saved, in_store, player_names, game, seats, seat_keys,
                   notice>>

(***************************************************************************)
(* The leaderboard file (lines 127-159).  `leaderboard` is the list that   *)
(* load_leaderboard answers: the list in the file, or the empty list when  *)
(* the file is missing or cannot be parsed, as it is between the open of   *)
(* line 143, which truncates it, and the dump of line 144.                 *)
(***************************************************************************)
LeaderboardCap == 300

\* an entry of the leaderboard; `score` stands for the fields that are not
\* part of the key
Entry(game_id, player, score) ==
    [game_id |-> game_id, player |-> player, score |-> score]

\* line 151: (e.get("game_id"), e.get("player"))
key_of(entry) == <<entry.game_id, entry.player>>

\* every key passes for a new one
always_new(key, existing) == TRUE

\* line 154
is_new(key, existing) == key \notin existing

\* lines 152-156
RECURSIVE add_loop(_, _, _)
add_loop(entries, new_entries, existing) ==
    IF new_entries = <<>> THEN entries
    ELSE LET entry == Head(new_entries)
             key == key_of(entry)
         IN  IF is_new(key, existing)
             THEN add_loop(Append(entries, entry), Tail(new_entries),
                           existing \cup {key})
             ELSE add_loop(entries, Tail(new_entries), existing)

\* the first LeaderboardCap entries
keep_oldest(entries) ==
    IF Len(entries) > LeaderboardCap
    THEN SubSeq(entries, 1, LeaderboardCap)
    ELSE entries

\* lines 157-158: entries[-300:]
keep_newest(entries) ==
    IF Len(entries) > LeaderboardCap
    THEN SubSeq(entries, Len(entries) - LeaderboardCap + 1, Len(entries))
    ELSE entries

\* lines 151-158: the list that add_leaderboard_entries saves
merged(entries, new_entries) ==
    keep_newest(add_loop(entries, new_entries,
                         {key_of(entries[i]) : i \in 1..Len(entries)}))

\* game_id: the id of the game in the store
gid == "g1"

DigitNames == <<"1", "2", "3", "4">>

\* lines 1703-1707: the stripped name, or "Player <n>"
player_label_func(player, names) ==
    IF strip(names[player]) # <<>> THEN strip(names[player])
    ELSE <<"P", "l", "a", "y", "e", "r", " ", DigitNames[player]>>

\* lines 2013-2028: one entry per player
results_entries ==
    [p \in Players |->
        Entry(gid, player_label_func(p, player_names), scores[p])]

\* lines 1980-2029 and 148: line 2012 finds results to save, the entries
\* are built and add_leaderboard_entries is called
SaveEntries(s) ==
    /\ pc[s] = "L1979"
    /\ locals[s].best_per_player # <<>>
    /\ ~leaderboard_saved
    /\ goto(s, "L150")
    /\ locals' = [locals EXCEPT ![s] =
                    [player |-> @.player, new_entries |-> results_entries]]
    /\ UNCHANGED <<config, leaderboard, leaderboard_saved, in_store, player_names, game,
                   seats, seat_keys, notice>>

\* lines 150-158: the file is read and the list to save is built
SaveLoad(s) ==
    /\ pc[s] = "L150"
    /\ goto(s, "L143")
    /\ locals' = [locals EXCEPT ![s] =
                    [player |-> @.player, new_entries |-> @.new_entries,
                     entries |-> merged(leaderboard, @.new_entries)]]
    /\ UNCHANGED <<config, leaderboard, leaderboard_saved, in_store, player_names, game,
                   seats, seat_keys, notice>>

\* lines 159 and 142-143: the file is opened for writing, which truncates it
SaveOpen(s) ==
    /\ pc[s] = "L143"
    /\ leaderboard' = <<>>
    /\ goto(s, "L144")
    /\ UNCHANGED <<config, leaderboard_saved, in_store, player_names, game, seats,
                   seat_keys, notice, locals>>

\* line 144: the list is written
SaveDump(s) ==
    /\ pc[s] = "L144"
    /\ leaderboard' = locals[s].entries
    /\ goto(s, "L2030")
    /\ UNCHANGED <<config, leaderboard_saved, in_store, player_names, game, seats,
                   seat_keys, notice, locals>>

\* lines 2030-2043: the game is marked as saved and the page ends
SaveMark(s) ==
    /\ pc[s] = "L2030"
    /\ leaderboard_saved' = TRUE
    /\ rerun(s)
    /\ UNCHANGED <<config, leaderboard, in_store, player_names, game, seats,
                   seat_keys, notice>>

ResultsNext ==
    \/ \E s \in Sessions, p \in Players, key \in KnownKeys, take \in BOOLEAN :
           ClaimSeat(s, p, key, take)
    \/ \E s \in Sessions, p \in Players, key \in KnownKeys : ResultsBest(s, p, key)
    \/ \E s \in Sessions : ResultsDone(s)
    \/ \E s \in Sessions : SaveEntries(s)
    \/ \E s \in Sessions : SaveLoad(s)
    \/ \E s \in Sessions : SaveOpen(s)
    \/ \E s \in Sessions : SaveDump(s)
    \/ \E s \in Sessions : SaveMark(s)

ResultsSpec == ResultsInit /\ [][ResultsNext]_vars

Shown(s) == pc[s] = "L1979"

row_norms(rows) == {normalize_city_name(rows[m].name) : m \in 1..Len(rows)}

\* C22 as stated: no city of the best list has the normalized name of a
\* vertex or of an accepted submission of the game.
C22_NothingUsed ==
    \A s \in Sessions :
        Shown(s) =>
            row_norms(locals[s].best_per_player)
              \cap (tri_norms(triangle_names) \cup used_norms(submissions)) = {}

\* C22: no city of the best list computed for a game's results has a
\* normalized name equal to the name of a vertex of the triangle; the names
\* of the accepted submissions are not excluded: the list is the one
\* best_cities_for_triangle returns for the triangle, the rounds of the game
\* and the vertex names alone.
C22_NoVertexName ==
    \A s \in Sessions :
        Shown(s) =>
            /\ row_norms(locals[s].best_per_player)
                 \cap tri_norms(triangle_names) = {}
            /\ locals[s].best_per_player
                 = best_cities_for_triangle(triangle, rounds,
                                            tri_norms(triangle_names))

\* C22 happens: the results of a game are shown, the best list leaves out
\* the reference city called Paris, a vertex inside the triangle, and holds
\* Reims, which a player submitted.
C22_Witness ==
    \E s \in Sessions :
        /\ Shown(s)
        /\ normalize_city_name(Paris.fr) \in tri_norms(triangle_names)
        /\ \E i \in 1..Len(city_catalog) :
               /\ city_catalog[i].name = Paris.local
               /\ inside_geodesic_triangle(triangle, city_catalog[i].coord)
        /\ normalize_city_name(Reims.fr) \in used_norms(submissions)
        /\ normalize_city_name(Reims.fr)
             \in row_norms(locals[s].best_per_player)

(***************************************************************************)
(* GeoSpec: one call of inside_geodesic_triangle (lines 1167-1200) on a    *)
(* triangle and a point drawn from GeoTriangles and GeoPoints.             *)
(***************************************************************************)
GeoPoints ==
    {NorthPole, SouthPole, Eq0, Eq45, Eq90, Eq180, EqW90, Mid45,
     Paris.coord, Berlin.coord, Madrid.coord, Reims.coord}

\* lists of three vertices, and lists that are too short or too long
GeoTriangles ==
    {<<a, b, c>> : a \in GeoPoints, b \in GeoPoints, c \in GeoPoints}
      \cup {<<>>, <<Eq0>>, <<Eq0, Eq90>>, <<NorthPole, Eq0, Eq90, Mid45>>}

GeoInit ==
    /\ Stored(create_game(1, 1, "s1"))
    /\ notice = "none"
    /\ leaderboard = <<>>
    /\ leaderboard_saved = FALSE
    /\ \E tri \in GeoTriangles, p \in GeoPoints :
           /\ pc = [s \in Sessions |-> IF s = "s1" THEN "L1167" ELSE "idle"]
           /\ locals = [s \in Sessions |->
                          IF s = "s1" THEN [tri |-> tri, p |-> p]
                          ELSE NoLocals]

\* lines 1167-1200: the call returns its verdict
GeoReturn(s) ==
    /\ pc[s] = "L1167"
    /\ goto(s, "L1200")
    /\ locals' = [locals EXCEPT ![s] =
                    [tri |-> locals[s].tri, p |-> locals[s].p,
                     inside |-> inside_geodesic_triangle(locals[s].tri,
                                                         locals[s].p)]]
    /\ UNCHANGED <<config, leaderboard, leaderboard_saved, game, seats, seat_keys, player_names, in_store,
                   notice>>

GeoNext == \E s \in Sessions : GeoReturn(s)

GeoSpec == GeoInit /\ [][GeoNext]_vars

Judged_inside(s) == pc[s] = "L1200"

\* the six orderings of a list of three vertices
Orderings(tri) ==
    {<<tri[i], tri[j], tri[k]>> : <<i, j, k>> \in
        {<<1, 2, 3>>, <<2, 3, 1>>, <<3, 1, 2>>,
         <<3, 2, 1>>, <<2, 1, 3>>, <<1, 3, 2>>}}

\* the scalar triple product (a x b) . c of three vertices
Triple(a, b, c) ==
    LET u == unit_vec(a)
        v == unit_vec(b)
        w == unit_vec(c)
    IN  u[1] * (v[2] * w[3] - v[3] * w[2])
          + u[2] * (v[3] * w[1] - v[1] * w[3])
          + u[3] * (v[1] * w[2] - v[2] * w[1])

Coincident(a, b) == unit_vec(a) = unit_vec(b)

Antipodal(a, b) == \A i \in 1..3 : unit_vec(a)[i] = 0 - unit_vec(b)[i]

\* not three vertices, or two of them coincident or antipodal, or one of
\* them on the great circle through the other two
Degenerate(tri) ==
    \/ Len(tri) # 3
    \/ \E i, j \in 1..3 :
           i # j /\ (Coincident(tri[i], tri[j]) \/ Antipodal(tri[i], tri[j]))
    \/ Triple(tri[1], tri[2], tri[3]) = 0

\* C23: inside_geodesic_triangle gives the same verdict for the six
\* orderings of the three vertices of a triangle.
C23_OrderInvariance ==
    \A s \in Sessions :
        Judged_inside(s) /\ Len(locals[s].tri) = 3 =>
            \A t \in Orderings(locals[s].tri) :
                inside_geodesic_triangle(t, locals[s].p) = locals[s].inside

\* C23 happens: Reims was found inside Paris-Berlin-Madrid with the
\* vertices listed in the order of negative orientation, the reverse of an
\* order of positive orientation.
C23_Witness ==
    \E s \in Sessions :
        /\ Judged_inside(s)
        /\ locals[s].tri \in Orderings(<<Paris.coord, Berlin.coord, Madrid.coord>>)
        /\ Triple(locals[s].tri[1], locals[s].tri[2], locals[s].tri[3]) < 0
        /\ Triple(locals[s].tri[3], locals[s].tri[2], locals[s].tri[1]) > 0
        /\ locals[s].p = Reims.coord
        /\ locals[s].inside

\* C24: a triangle that has not exactly three vertices, or two vertices
\* coincident or antipodal, or a vertex on the great circle of the opposite
\* edge, contains no point: inside_geodesic_triangle answers not-inside for
\* every query point, and it answers for every such triangle.
C24_DegenerateFailsClosed ==
    \A s \in Sessions :
        Judged_inside(s) /\ Degenerate(locals[s].tri) => ~locals[s].inside

\* C24 happens: the call was made with two vertices, with twice the same
\* vertex, with antipodal vertices and with three vertices on the equator,
\* each time for a point that is one of the vertices.
C24_WitnessShort ==
    \E s \in Sessions :
        /\ Judged_inside(s)
        /\ locals[s].tri = <<Eq0, Eq90>>
        /\ locals[s].p = Eq0

C24_WitnessCoincident ==
    \E s \in Sessions :
        /\ Judged_inside(s)
        /\ locals[s].tri = <<Paris.coord, Paris.coord, Berlin.coord>>
        /\ locals[s].p = Paris.coord

C24_WitnessAntipodal ==
    \E s \in Sessions :
        /\ Judged_inside(s)
        /\ locals[s].tri = <<Eq0, Eq180, NorthPole>>
        /\ Antipodal(Eq0, Eq180)
        /\ locals[s].p = NorthPole

C24_WitnessCoplanar ==
    \E s \in Sessions :
        /\ Judged_inside(s)
        /\ locals[s].tri = <<Eq0, Eq45, Eq90>>
        /\ ~Coincident(Eq0, Eq45) /\ ~Antipodal(Eq0, Eq90)
        /\ Triple(Eq0, Eq45, Eq90) = 0
        /\ locals[s].p = Eq45

\* C25: each of the three vertices of a non-degenerate triangle is inside
\* the triangle.
C25_VerticesInside ==
    \A s \in Sessions :
        /\ Judged_inside(s)
        /\ ~Degenerate(locals[s].tri)
        /\ \E i \in 1..3 : locals[s].tri[i] = locals[s].p
        => locals[s].inside

\* C25 happens: the call was made for the third vertex of a non-degenerate
\* triangle of positive orientation.
C25_Witness ==
    \E s \in Sessions :
        /\ Judged_inside(s)
        /\ ~Degenerate(locals[s].tri)
        /\ Triple(locals[s].tri[1], locals[s].tri[2], locals[s].tri[3]) > 0
        /\ locals[s].p = locals[s].tri[3]
        /\ locals[s].inside

\* the test of one edge (a, b) with opposite vertex c: the normal's dot
\* product with p has the sign of its dot product with c, or is within eps
\* of zero (a scaled integer within eps of zero is zero)
EdgePasses(a, b, c, p) ==
    LET d == Triple(a, b, p)
        o == Triple(a, b, c)
    IN  \/ d = 0
        \/ d > 0 /\ o > 0
        \/ d < 0 /\ o < 0

\* C26: for a non-degenerate triangle, inside_geodesic_triangle answers
\* inside exactly when the query point passes the test of each of the three
\* edges.
C26_ContainmentRule ==
    \A s \in Sessions :
        Judged_inside(s) /\ ~Degenerate(locals[s].tri) =>
            LET t == locals[s].tri
                p == locals[s].p
            IN  locals[s].inside
                  <=> /\ EdgePasses(t[1], t[2], t[3], p)
                      /\ EdgePasses(t[2], t[3], t[1], p)
                      /\ EdgePasses(t[3], t[1], t[2], p)

\* C26 happens: a point that passes two edges of a non-degenerate triangle
\* and fails the third was found outside.
C26_Witness ==
    \E s \in Sessions :
        /\ Judged_inside(s)
        /\ ~Degenerate(locals[s].tri)
        /\ LET t == locals[s].tri
               p == locals[s].p
           IN  /\ EdgePasses(t[1], t[2], t[3], p)
               /\ EdgePasses(t[2], t[3], t[1], p)
               /\ ~EdgePasses(t[3], t[1], t[2], p)
        /\ ~locals[s].inside

\* a point on an edge of a non-degenerate triangle, not a vertex, was found
\* inside
C26_WitnessOnEdge ==
    \E s \in Sessions :
        /\ Judged_inside(s)
        /\ locals[s].tri = <<Eq0, Eq90, NorthPole>>
        /\ locals[s].p = Eq45
        /\ Triple(Eq0, Eq90, Eq45) = 0
        /\ locals[s].inside

(***************************************************************************)
(* BoardSpec: the sessions call add_leaderboard_entries on the batches of  *)
(* Batches, from a leaderboard of Boards; the calls interleave at the      *)
(* reads and writes of the file.                                           *)
(***************************************************************************)
\* a leaderboard of n games of one player, the oldest first
Board(n) == [i \in 1..n |-> Entry(i, "A", i)]

Boards == {Board(0), Board(LeaderboardCap - 1), Board(LeaderboardCap)}

Batches ==
    { <<>>,
      <<Entry(LeaderboardCap, "A", 999), Entry(LeaderboardCap, "B", 1)>>,
      <<Entry(LeaderboardCap + 1, "A", 5), Entry(LeaderboardCap + 1, "A", 6),
        Entry(LeaderboardCap + 1, "B", 7)>> }

BoardInit ==
    /\ Stored(create_game(1, 1, "s1"))
    /\ notice = "none"
    /\ leaderboard \in Boards
    /\ leaderboard_saved = FALSE
    /\ pc = [s \in Sessions |-> "idle"]
    /\ locals = [s \in Sessions |-> NoLocals]

frame_board == <<config, game, seats, seat_keys, player_names, in_store,
                 notice, leaderboard_saved>>

\* the results of the game of the batch are on the leaderboard: the last
\* entry of the batch is stored
Saved(new_entries) ==
    \E i \in 1..Len(leaderboard) :
        leaderboard[i] = new_entries[Len(new_entries)]

\* lines 148-149: nothing to add, nothing is read or written
BoardEmpty(s, new_entries) ==
    /\ pc[s] = "idle"
    /\ new_entries = <<>>
    /\ UNCHANGED <<frame_board, leaderboard, pc, locals>>

\* line 150: the file is read
BoardLoad(s, new_entries) ==
    /\ pc[s] = "idle"
    /\ new_entries # <<>>
    /\ ~Saved(new_entries)
    /\ goto(s, "L151")
    /\ locals' = [locals EXCEPT ![s] =
                    [new_entries |-> new_entries, entries |-> leaderboard]]
    /\ UNCHANGED <<frame_board, leaderboard>>

\* lines 151-159 and 142-143: the list is built and the file opened for
\* writing, which truncates it
BoardOpen(s) ==
    /\ pc[s] = "L151"
    /\ goto(s, "L144")
    /\ locals' = [locals EXCEPT ![s] =
                    [new_entries |-> locals[s].new_entries,
                     loaded |-> locals[s].entries,
                     entries |-> merged(locals[s].entries,
                                        locals[s].new_entries)]]
    /\ leaderboard' = <<>>
    /\ UNCHANGED frame_board

\* line 144: the list is written
BoardDump(s) ==
    /\ pc[s] = "L144"
    /\ leaderboard' = locals[s].entries
    /\ rerun(s)
    /\ UNCHANGED frame_board

BoardNext ==
    \/ \E s \in Sessions, batch \in Batches : BoardEmpty(s, batch)
    \/ \E s \in Sessions, batch \in Batches : BoardLoad(s, batch)
    \/ \E s \in Sessions : BoardOpen(s)
    \/ \E s \in Sessions : BoardDump(s)

BoardSpec == BoardInit /\ [][BoardNext]_vars

Keys(entries) == {key_of(entries[i]) : i \in 1..Len(entries)}

UniqueKeys(entries) ==
    \A i, j \in 1..Len(entries) :
        i # j => key_of(entries[i]) # key_of(entries[j])

\* session s writes the list of its call
Dumps(s) == pc[s] = "L144" /\ pc'[s] = "idle"

\* C27: no two entries of the stored leaderboard have the same (game_id,
\* player); when a call writes, every entry it writes under a key of the
\* list it read is the entry it read, so a new entry of a stored key is
\* dropped.
C27_KeyUniqueness ==
    /\ [](UniqueKeys(leaderboard))
    /\ [][\A s \in Sessions :
            Dumps(s) =>
                LET old == locals[s].loaded
                IN  \A i \in 1..Len(leaderboard') :
                        key_of(leaderboard'[i]) \in Keys(old) =>
                            \E j \in 1..Len(old) : old[j] = leaderboard'[i]]_vars

\* C27 happens: a call with an entry of a stored key and an entry of a new
\* key was written: the new key is stored, the stored key has its old entry.
C27_Witness ==
    /\ \A s \in Sessions : pc[s] = "idle"
    /\ \E i, j \in 1..Len(leaderboard) :
           /\ leaderboard[i] = Entry(LeaderboardCap, "A", LeaderboardCap)
           /\ leaderboard[j] = Entry(LeaderboardCap, "B", 1)

\* the entries of a batch that a call adds to the list it read: those of a
\* key that is neither in the list nor earlier in the batch, in batch order
RECURSIVE Fresh(_, _)
Fresh(old_keys, batch) ==
    IF batch = <<>> THEN <<>>
    ELSE LET last == batch[Len(batch)]
             front == SubSeq(batch, 1, Len(batch) - 1)
         IN  IF key_of(last) \in old_keys \cup Keys(front)
             THEN Fresh(old_keys, front)
             ELSE Append(Fresh(old_keys, front), last)

\* C28: a call that writes leaves at most 300 entries in the stored
\* leaderboard: the list the call read followed by its new entries, less as
\* many entries from its front, the oldest, as the list exceeds 300; the
\* entries kept are in their original order.
C28_Cap ==
    [][\A s \in Sessions :
         Dumps(s) =>
             LET all == locals[s].loaded
                          \o Fresh(Keys(locals[s].loaded), locals[s].new_entries)
                 over == IF Len(all) > 300 THEN Len(all) - 300 ELSE 0
             IN  /\ Len(leaderboard') <= 300
                 /\ leaderboard' = SubSeq(all, over + 1, Len(all))]_vars

\* C28 happens: a call on a full leaderboard was written; the two oldest
\* entries are gone, the third oldest is now the first, the two new entries
\* are the last.
C28_Witness ==
    /\ \A s \in Sessions : pc[s] = "idle"
    /\ Len(leaderboard) = 300
    /\ leaderboard[1] = Entry(3, "A", 3)
    /\ leaderboard[299] = Entry(301, "A", 5)
    /\ leaderboard[300] = Entry(301, "B", 7)

(***************************************************************************)
(* Waiting (lines 746-756, 1827-1831, 1872-1877).  A run of a player whose *)
(* turn it is not ends in wait_for_state_change, which schedules the next  *)
(* run of the session: the page refreshes every 400 ms (st_autorefresh),   *)
(* or the run sleeps 400 ms and reruns.  pc[s] = "L752" is a session on    *)
(* the waiting page, locals[s] the request its refresh repeats and the     *)
(* stage it waits in.                                                      *)
(***************************************************************************)
\* the test of lines 1828 and 1872 for player p: the waiting branch
must_wait(p) ==
    \/ stage = "triangle" /\ ~Solo /\ p # turn
    \/ stage = "scoring" /\ ~AllSubmitted /\ p # turn

\* the waiting branch is taken by every player
always_wait(p, ready) == TRUE

\* line 750: a run waits unless ready_check() answers true
waits(p, ready) == must_wait(p) /\ ~ready

\* the lambdas of lines 1830 and 1875
ready_check(p, waited) == stage # waited \/ turn = p

\* a run that ends on the waiting page
Wait(s, p, key) ==
    /\ enter(s, p, key)
    /\ waits(p, ready_check(p, stage))
    /\ goto(s, "L752")
    /\ locals' = [locals EXCEPT ![s] =
                    [player |-> p, seat_key |-> key, stage |-> stage]]
    /\ UNCHANGED <<config, leaderboard, leaderboard_saved, player_names, in_store, game_rest,
                   notice>>

\* the refresh of a waiting session: one more run of the page script for
\* the same request.  The run ends on "Seat already taken" (line 1681), on
\* the waiting page again, or on the page of the current stage; lines
\* 1867-1870 move a scoring stage whose turns are all played to name_entry.
Poll(s) ==
    LET p == locals[s].player
        c == claim_seat(seats, seat_keys, p, s, locals[s].seat_key, FALSE)
        seated == c.ok /\ c.key = locals[s].seat_key
        finish == seated /\ stage = "scoring" /\ AllSubmitted
    IN  /\ pc[s] = "L752"
        /\ in_store
        /\ triangle_names' = ensure_state_meta(triangle_names, triangle_labels)
        /\ IF c.ok
           THEN seats' = c.seats /\ seat_keys' = c.seat_keys
           ELSE UNCHANGED <<seats, seat_keys>>
        /\ notice' = IF c.ok THEN notice ELSE "seat_taken"
        /\ stage' = IF finish THEN "name_entry" ELSE stage
        /\ IF seated /\ waits(p, ready_check(p, stage))
           THEN /\ pc' = pc
                /\ locals' = [locals EXCEPT ![s].stage = stage]
           ELSE rerun(s)
        /\ UNCHANGED <<config, leaderboard, leaderboard_saved, player_names, in_store, triangle,
                       triangle_labels, submissions, scores, turn,
                       submitted_counts>>

WaitCityPicks == {Reims, London}

WaitInit ==
    /\ \E n \in 1..MaxPlayers, r \in 1..MaxRounds :
           Stored(create_game(n, r, "s1"))
    /\ notice = "none"
    /\ leaderboard = <<>>
    /\ leaderboard_saved = FALSE
    /\ pc = [s \in Sessions |-> "idle"]
    /\ locals = [s \in Sessions |-> NoLocals]

WaitNext ==
    \/ \E s \in Sessions, p \in Players, key \in KnownKeys, take \in BOOLEAN :
           ClaimSeat(s, p, key, take)
    \/ \E s \in Sessions, p \in Players, key \in KnownKeys : RandomOpen(s, p, key)
    \/ \E s \in Sessions, best \in Candidates : RandomResolve(s, best)
    \/ \E s \in Sessions : RandomSetTriangle(s)
    \/ \E s \in Sessions : RandomSetLabels(s)
    \/ \E s \in Sessions : RandomSetNames(s)
    \/ \E s \in Sessions : RandomSetStage(s)
    \/ \E s \in Sessions : RandomSetTurn(s)
    \/ \E s \in Sessions, p \in Players, key \in KnownKeys : TriangleRender(s, p, key)
    \/ \E s \in Sessions, p \in Players, key \in KnownKeys : Wait(s, p, key)
    \/ \E s \in Sessions : Poll(s)
    \/ \E s \in Sessions, p \in Players, key \in KnownKeys : ScoringFinish(s, p, key)
    \/ \E s \in Sessions, p \in Players, key \in KnownKeys : ScoringRender(s, p, key)
    \/ \E s \in Sessions, p \in Players, key \in KnownKeys : ScoringOpen(s, p, key)
    \/ \E s \in Sessions, pick \in WaitCityPicks : ScoringResolve(s, pick)
    \/ \E s \in Sessions : SubmissionAppend(s)
    \/ \E s \in Sessions : SubmissionCount(s)
    \/ \E s \in Sessions : SubmissionScore(s)
    \/ \E s \in Sessions : SubmissionTurn(s)

\* the refresh of every waiting session fires again and again
WaitSpec ==
    /\ WaitInit
    /\ [][WaitNext]_vars
    /\ \A s \in Sessions : WF_vars(Poll(s))

Waiting(s) == pc[s] = "L752"

\* what the session waits for has come
Ready(s) == ready_check(locals[s].player, locals[s].stage)

\* the fields of the GameState
game_state == <<triangle, triangle_labels, submissions, scores, turn, rounds,
                submitted_counts, stage>>

\* session s is on the waiting page of stage `waited`
WaitingIn(s, waited) == Waiting(s) /\ locals[s].stage = waited

max_step_km == 250

min_points == 12

max_points == 96

EdgePoints ==
    {Eq0, Eq30, Eq45, Eq90, Eq180, EqW90, EqW100, NorthPole, SouthPole,
     Mid45, Paris.coord, Berlin.coord, Madrid.coord, Reims.coord}

\* GEOD.inv on the WGS84 ellipsoid: the geodesic distance between two of
\* the points, in whole metres (the fraction never reaches the next step)
GeodMetresTable ==
    {<<Eq0, Eq30, 3339584>>,
     <<Eq0, Eq45, 5009377>>,
     <<Eq0, Eq90, 10018754>>,
     <<Eq0, Eq180, 20003931>>,
     <<Eq0, EqW90, 10018754>>,
     <<Eq0, EqW100, 11131949>>,
     <<Eq0, NorthPole, 10001965>>,
     <<Eq0, SouthPole, 10001965>>,
     <<Eq0, Mid45, 6662472>>,
     <<Eq0, Paris.coord, 5418407>>,
     <<Eq0, Berlin.coord, 5954148>>,
     <<Eq0, Madrid.coord, 4491527>>,
     <<Eq0, Reims.coord, 5472017>>,
     <<Eq30, Eq45, 1669792>>,
     <<Eq30, Eq90, 6679169>>,
     <<Eq30, Eq180, 16697923>>,
     <<Eq30, EqW90, 13358338>>,
     <<Eq30, EqW100, 14471533>>,
     <<Eq30, NorthPole, 10001965>>,
     <<Eq30, SouthPole, 10001965>>,
     <<Eq30, Mid45, 5199969>>,
     <<Eq30, Paris.coord, 6028637>>,
     <<Eq30, Berlin.coord, 6023628>>,
     <<Eq30, Madrid.coord, 5626265>>,
     <<Eq30, Reims.coord, 5997196>>,
     <<Eq45, Eq90, 5009377>>,
     <<Eq45, Eq180, 15028131>>,
     <<Eq45, EqW90, 15028131>>,
     <<Eq45, EqW100, 16141326>>,
     <<Eq45, NorthPole, 10001965>>,
     <<Eq45, SouthPole, 10001965>>,
     <<Eq45, Mid45, 4984944>>,
     <<Eq45, Paris.coord, 6778437>>,
     <<Eq45, Berlin.coord, 6521944>>,
     <<Eq45, Madrid.coord, 6647005>>,
     <<Eq45, Reims.coord, 6713120>>,
     <<Eq90, Eq180, 10018754>>,
     <<Eq90, EqW90, 20003931>>,
     <<Eq90, EqW100, 18924313>>,
     <<Eq90, NorthPole, 10001965>>,
     <<Eq90, SouthPole, 10001965>>,
     <<Eq90, Mid45, 6662472>>,
     <<Eq90, Paris.coord, 9836775>>,
     <<Eq90, Berlin.coord, 9103331>>,
     <<Eq90, Madrid.coord, 10325962>>,
     <<Eq90, Reims.coord, 9715784>>,
     <<Eq180, EqW90, 10018754>>,
     <<Eq180, EqW100, 8905559>>,
     <<Eq180, NorthPole, 10001965>>,
     <<Eq180, SouthPole, 10001965>>,
     <<Eq180, Mid45, 13352682>>,
     <<Eq180, Paris.coord, 14585567>>,
     <<Eq180, Berlin.coord, 14050814>>,
     <<Eq180, Madrid.coord, 15512596>>,
     <<Eq180, Reims.coord, 14532037>>,
     <<EqW90, EqW100, 1113194>>,
     <<EqW90, NorthPole, 10001965>>,
     <<EqW90, SouthPole, 10001965>>,
     <<EqW90, Mid45, 13352682>>,
     <<EqW90, Paris.coord, 10181729>>,
     <<EqW90, Berlin.coord, 10912650>>,
     <<EqW90, Madrid.coord, 9697448>>,
     <<EqW90, Reims.coord, 10302460>>,
     <<EqW100, NorthPole, 10001965>>,
     <<EqW100, SouthPole, 10001965>>,
     <<EqW100, Mid45, 13952844>>,
     <<EqW100, Paris.coord, 10911375>>,
     <<EqW100, Berlin.coord, 11567894>>,
     <<EqW100, Madrid.coord, 10545591>>,
     <<EqW100, Reims.coord, 11024384>>,
     <<NorthPole, SouthPole, 20003931>>,
     <<NorthPole, Mid45, 5017021>>,
     <<NorthPole, Paris.coord, 4588274>>,
     <<NorthPole, Berlin.coord, 4180760>>,
     <<NorthPole, Madrid.coord, 5526155>>,
     <<NorthPole, Reims.coord, 4543611>>,
     <<SouthPole, Mid45, 14986910>>,
     <<SouthPole, Paris.coord, 15415657>>,
     <<SouthPole, Berlin.coord, 15823170>>,
     <<SouthPole, Madrid.coord, 14477775>>,
     <<SouthPole, Reims.coord, 15460319>>,
     <<Mid45, Paris.coord, 3232967>>,
     <<Mid45, Berlin.coord, 2445331>>,
     <<Mid45, Madrid.coord, 3961862>>,
     <<Mid45, Reims.coord, 3105146>>,
     <<Paris.coord, Berlin.coord, 879780>>,
     <<Paris.coord, Madrid.coord, 1052924>>,
     <<Paris.coord, Reims.coord, 130715>>,
     <<Berlin.coord, Madrid.coord, 1871431>>,
     <<Berlin.coord, Reims.coord, 751952>>,
     <<Madrid.coord, Reims.coord, 1155967>>}

geod_inv_m(p1, p2) ==
    IF p1 = p2 THEN 0
    ELSE (CHOOSE t \in GeodMetresTable : {t[1], t[2]} = {p1, p2})[3]

Max(a, b) == IF a >= b THEN a ELSE b

\* GEOD.npts(..., n - 1): the n - 1 points spaced evenly between the ends
npts(p1, p2, k) == [i \in 1..k |-> [from |-> p1, to |-> p2, i |-> i, of |-> k]]

\* lines 1100-1104: both ends and the n - 1 points between them
gc_line(p1, p2, n) == <<p1>> \o npts(p1, p2, n - 1) \o <<p2>>

\* the step count without its lower and upper limits
unclamped_edge(p1, p2) ==
    gc_line(p1, p2, geod_inv_m(p1, p2) \div (max_step_km * 1000) + 2)

\* lines 1107-1113
geodesic_edge(p1, p2) ==
    LET dist_m == geod_inv_m(p1, p2)
        n == Max(min_points, dist_m \div (max_step_km * 1000) + 2)
    IN  gc_line(p1, p2, Min(n, max_points))

EdgeInit ==
    /\ Stored(create_game(1, 1, "s1"))
    /\ notice = "none"
    /\ leaderboard = <<>>
    /\ leaderboard_saved = FALSE
    /\ \E p1 \in EdgePoints, p2 \in EdgePoints :
           /\ pc = [s \in Sessions |-> IF s = "s1" THEN "L1107" ELSE "idle"]
           /\ locals = [s \in Sessions |->
                          IF s = "s1" THEN [p1 |-> p1, p2 |-> p2]
                          ELSE NoLocals]

\* lines 1107-1113: the call returns the list of points
EdgeReturn(s) ==
    /\ pc[s] = "L1107"
    /\ goto(s, "L1113")
    /\ locals' = [locals EXCEPT ![s] =
                    [p1 |-> locals[s].p1, p2 |-> locals[s].p2,
                     edge |-> geodesic_edge(locals[s].p1, locals[s].p2)]]
    /\ UNCHANGED <<config, leaderboard, leaderboard_saved, game, seats, seat_keys, player_names, in_store,
                   notice>>

EdgeNext == \E s \in Sessions : EdgeReturn(s)

EdgeSpec == EdgeInit /\ [][EdgeNext]_vars

Edge_returned(s) == pc[s] = "L1113"

\* C30: whatever the two endpoints, geodesic_edge returns at least
\* min_points (12) and at most max_points (96) points, and a pair of
\* endpoints that is no farther apart never gets more points.
C30_BoundedMonotone ==
    \A s \in Sessions :
        Edge_returned(s) =>
            /\ Len(locals[s].edge) >= min_points
            /\ Len(locals[s].edge) <= max_points
            /\ \A q1 \in EdgePoints, q2 \in EdgePoints :
                   geod_inv_m(q1, q2) <= geod_inv_m(locals[s].p1, locals[s].p2)
                       => Len(geodesic_edge(q1, q2)) <= Len(locals[s].edge)

\* the longest arc there is, between two antipodal points, gets the most
\* points, more than a short arc does
C30_Witness ==
    \E s \in Sessions :
        /\ Edge_returned(s)
        /\ locals[s].p1 = Eq0
        /\ locals[s].p2 = Eq180
        /\ Len(locals[s].edge) = 83
        /\ Len(geodesic_edge(Paris.coord, Berlin.coord)) = 13
        /\ locals[s].edge[1] = Eq0
        /\ locals[s].edge[83] = Eq180

\* ---------------------------------------------------------------------
\* unwrap_longitudes (lines 1129-1137), in whole degrees.
\* ---------------------------------------------------------------------

MaxLons == 4

Longitudes == {-180, -170, -13, -11, 0, 168, 170, 180}

LonLists == UNION {[1..n -> Longitudes] : n \in 0..MaxLons}

abs(x) == IF x < 0 THEN 0 - x ELSE x

\* min(cands, key=lambda x: abs(x - prev)): the first of the nearest
nearest(cands, prev) ==
    LET best == CHOOSE i \in 1..Len(cands) :
                    /\ \A j \in 1..Len(cands) :
                           abs(cands[i] - prev) <= abs(cands[j] - prev)
                    /\ \A j \in 1..(i - 1) :
                           abs(cands[j] - prev) > abs(cands[i] - prev)
    IN  cands[best]

\* the longitude taken as it is
lon_kept(lon, prev) == lon

\* line 1135
lon_adj(lon, prev) == nearest(<<lon - 360, lon, lon + 360>>, prev)

\* lines 1133-1136
RECURSIVE unwrap_loop(_, _, _)
unwrap_loop(lons, i, unwrapped) ==
    IF i > Len(lons) THEN unwrapped
    ELSE unwrap_loop(lons, i + 1,
                     Append(unwrapped,
                            lon_adj(lons[i], unwrapped[Len(unwrapped)])))

unwrap_longitudes(lons) ==
    IF lons = <<>> THEN lons ELSE unwrap_loop(lons, 2, <<lons[1]>>)

UnwrapInit ==
    /\ Stored(create_game(1, 1, "s1"))
    /\ notice = "none"
    /\ leaderboard = <<>>
    /\ leaderboard_saved = FALSE
    /\ \E lons \in LonLists :
           /\ pc = [s \in Sessions |-> IF s = "s1" THEN "L1129" ELSE "idle"]
           /\ locals = [s \in Sessions |->
                          IF s = "s1" THEN [lons |-> lons] ELSE NoLocals]

\* lines 1129-1137: the call returns the unwrapped list
UnwrapReturn(s) ==
    /\ pc[s] = "L1129"
    /\ goto(s, "L1137")
    /\ locals' = [locals EXCEPT ![s] =
                    [lons |-> locals[s].lons,
                     unwrapped |-> unwrap_longitudes(locals[s].lons)]]
    /\ UNCHANGED <<config, leaderboard, leaderboard_saved, game, seats, seat_keys, player_names, in_store,
                   notice>>

UnwrapNext == \E s \in Sessions : UnwrapReturn(s)

UnwrapSpec == UnwrapInit /\ [][UnwrapNext]_vars

Unwrapped(s) == pc[s] = "L1137"

Turns == (0 - 3)..3

\* C31 as stated: same length, first element kept, every later element
\* is its input shifted by the multiple of 360 nearest to the previous
\* output, so that two outputs in a row are never more than 180 apart.
C31_NearestMultiple ==
    \A s \in Sessions :
        Unwrapped(s) =>
            LET in == locals[s].lons
                out == locals[s].unwrapped
            IN  /\ Len(out) = Len(in)
                /\ in # <<>> => out[1] = in[1]
                /\ \A i \in 2..Len(in) :
                       /\ \E k \in Turns : out[i] = in[i] + 360 * k
                       /\ \A k \in Turns :
                              abs(out[i] - out[i - 1])
                                  <= abs(in[i] + 360 * k - out[i - 1])
                       /\ abs(out[i] - out[i - 1]) <= 180

\* C31, amended: same length, first element kept, every later element is
\* its input shifted by -360, 0 or +360, whichever is nearest to the
\* previous output; two outputs in a row are at most 180 apart whenever
\* the input is within 540 of the previous output.
C31_NearestOfThree ==
    \A s \in Sessions :
        Unwrapped(s) =>
            LET in == locals[s].lons
                out == locals[s].unwrapped
            IN  /\ Len(out) = Len(in)
                /\ in # <<>> => out[1] = in[1]
                /\ \A i \in 2..Len(in) :
                       /\ out[i] - in[i] \in {0 - 360, 0, 360}
                       /\ \A k \in {0 - 1, 0, 1} :
                              abs(out[i] - out[i - 1])
                                  <= abs(in[i] + 360 * k - out[i - 1])
                       /\ abs(in[i] - out[i - 1]) <= 540
                              => abs(out[i] - out[i - 1]) <= 180

\* a path across the antimeridian and back: 170, -170, 170
C31_Witness ==
    \E s \in Sessions :
        /\ Unwrapped(s)
        /\ locals[s].lons = <<170, 0 - 170, 170>>
        /\ locals[s].unwrapped = <<170, 190, 170>>

\* ---------------------------------------------------------------------
\* difficulty_ok (lines 1740-1748) on triangles of every size.
\* ---------------------------------------------------------------------

\* triangles on the equator whose mean edge is just at and just under a
\* threshold: 3500, 3499, 2000 and 1999 km
ThresholdTriangles ==
    {<<Eq0, Coord(0, 235808), Coord(0, 471616)>>,
     <<Eq0, Coord(0, 235785), Coord(0, 471570)>>,
     <<Eq0, Coord(0, 134747), Coord(0, 269495)>>,
     <<Eq0, Coord(0, 134724), Coord(0, 269449)>>}

DifficultyTriangles ==
    {t \in EdgePoints \X EdgePoints \X EdgePoints :
        t[1] # t[2] /\ t[2] # t[3] /\ t[1] # t[3]}
      \cup ThresholdTriangles

DifficultyInit ==
    /\ Stored(create_game(1, 1, "s1"))
    /\ notice = "none"
    /\ leaderboard = <<>>
    /\ leaderboard_saved = FALSE
    /\ \E coords \in DifficultyTriangles, difficulty \in DIFFICULTY_LEVELS :
           /\ pc = [s \in Sessions |-> IF s = "s1" THEN "L1740" ELSE "idle"]
           /\ locals = [s \in Sessions |->
                          IF s = "s1"
                          THEN [coords |-> coords, difficulty |-> difficulty]
                          ELSE NoLocals]

\* lines 1740-1748: the call returns its verdict
DifficultyReturn(s) ==
    /\ pc[s] = "L1740"
    /\ goto(s, "L1748")
    /\ locals' = [locals EXCEPT ![s] =
                    [coords |-> locals[s].coords,
                     difficulty |-> locals[s].difficulty,
                     ok |-> difficulty_ok(locals[s].coords,
                                          locals[s].difficulty)]]
    /\ UNCHANGED <<config, leaderboard, leaderboard_saved, game, seats, seat_keys, player_names, in_store,
                   notice>>

DifficultyNext == \E s \in Sessions : DifficultyReturn(s)

DifficultySpec == DifficultyInit /\ [][DifficultyNext]_vars

Judged_difficulty(s) == pc[s] = "L1748"

band(avg) ==
    IF avg >= 3500 THEN "Easy" ELSE IF avg >= 2000 THEN "Medium" ELSE "Hard"

\* C32: whatever the mean edge length of the triangle, difficulty_ok
\* accepts it at exactly one level: Easy iff avg >= 3500, Medium iff
\* 2000 <= avg < 3500, Hard iff avg < 2000.
C32_BandsPartition ==
    \A s \in Sessions :
        Judged_difficulty(s) =>
            LET coords == locals[s].coords
                avg == triangle_edge_avg_km(coords)
            IN  /\ locals[s].ok = (locals[s].difficulty = band(avg))
                /\ {d \in DIFFICULTY_LEVELS : difficulty_ok(coords, d)}
                       = {band(avg)}

\* a mean edge of exactly 3500 km is Easy, not Medium
C32_Witness ==
    \E s \in Sessions :
        /\ Judged_difficulty(s)
        /\ triangle_edge_avg_km(locals[s].coords) = 3500
        /\ locals[s].difficulty = "Easy"
        /\ locals[s].ok

C32_WitnessMediumLow ==
    \E s \in Sessions :
        /\ Judged_difficulty(s)
        /\ triangle_edge_avg_km(locals[s].coords) = 2000
        /\ locals[s].difficulty = "Hard"
        /\ ~locals[s].ok

\* C33: no player ever has more than `rounds` accepted submissions, and
\* when the game leaves the scoring stage every player's submitted count
\* is exactly `rounds`.
C33_RoundsPerPlayer ==
    /\ [](\A p \in Players :
              /\ submitted_counts[p] <= rounds
              /\ Len(submissions[p]) <= rounds)
    /\ [][(stage = "scoring" /\ stage' # "scoring")
              => \A p \in Players : submitted_counts'[p] = rounds]_vars

\* C34: random_triangle writes the game only while the stage is triangle
\* and only in a run of player 1; when it has finished, the triangle has
\* exactly three vertices, three labels and three names, the stage is
\* scoring and the turn is player 1's.
C34_RandomTriangle ==
    [][\A s \in Sessions :
          /\ (At(s, "L1802") \/ At(s, "L1803") \/ At(s, "L1804")
                \/ At(s, "L1810"))
                 => stage = "triangle" /\ locals[s].player = 1
          /\ At(s, "L1811")
                 => /\ Len(triangle') = 3
                    /\ Len(triangle_labels') = 3
                    /\ Len(triangle_names') = 3
                    /\ stage' = "scoring"
                    /\ turn' = 1
      ]_vars

\* C35: the statements of an accepted submission of player p (lines
\* 1911-1916) leave the triangle, its labels and names, the stage, the
\* rounds and every other player's submissions, submitted count, score and
\* display name as they were.
C35_AcceptFrame ==
    [][\A s \in Sessions :
          (At(s, "L1911") \/ At(s, "L1912") \/ At(s, "L1913")
             \/ At(s, "L1916"))
              => /\ UNCHANGED <<triangle, triangle_labels, triangle_names,
                                stage, rounds, players>>
                 /\ \A q \in Players \ {locals[s].player} :
                        /\ submissions'[q] = submissions[q]
                        /\ submitted_counts'[q] = submitted_counts[q]
                        /\ scores'[q] = scores[q]
                        /\ player_names'[q] = player_names[q]
      ]_vars

\* in a two-player game player 1's submission is recorded, counted and
\* scored, and nothing of player 2 has moved
C35_Witness ==
    /\ players = 2
    /\ Idle
    /\ stage = "scoring"
    /\ Len(submissions[1]) = 1
    /\ submitted_counts = <<1, 0>>
    /\ scores[1] > 0
    /\ scores[2] = 0
    /\ submissions[2] = <<>>
    /\ turn = 2

\* C36: every recorded submission has a population above 0; a city found
\* with population 0 is refused and the refusal leaves the game, the turn
\* included, as it was; a recorded submission inside the triangle makes
\* its player's score strictly larger.
C36_PopulationRequired ==
    /\ [](\A p \in Players : \A i \in 1..Len(submissions[p]) :
              submissions[p][i].population > 0)
    /\ [][\A s \in Sessions :
             /\ (pc[s] = "L1885" /\ notice' = "population" /\ pc'[s] = "idle")
                    => UNCHANGED <<game, config, player_names>>
             /\ (At(s, "L1913") /\ locals[s].inside)
                    => scores'[locals[s].player] > scores[locals[s].player]
         ]_vars

\* Bron, found with population 0, was refused and a city inside the
\* triangle was then recorded and scored
C36_Witness ==
    /\ notice = "population"
    /\ Idle
    /\ \E p \in Players :
           /\ Len(submissions[p]) = 1
           /\ ~submissions[p][1].outside
           /\ scores[p] = submissions[p][1].population
           /\ scores[p] > 0

(***************************************************************************)
(* SaveSpec: a game of one round played to its end, from the name entry   *)
(* to the results and their save on the leaderboard (lines 2048-2090 and  *)
(* 2012-2030), the statements of the runs of all sessions interleaved.     *)
(***************************************************************************)
\* the cities of the game, accepted in turn
SaveCities == <<Reims, OrleansFr>>

\* the game when the last submission is in and line 1869 has run
played_game(n) ==
    [finished_game(n, 1, <<Paris, Berlin, Madrid>>, SubSeq(SaveCities, 1, n))
        EXCEPT !.player_names = [q \in 1..n |-> <<>>],
               !.stage = "name_entry"]

SaveInit ==
    /\ \E n \in 1..MaxPlayers : Stored(played_game(n))
    /\ notice = "none"
    /\ leaderboard = <<>>
    /\ leaderboard_saved = FALSE
    /\ pc = [s \in Sessions |-> "idle"]
    /\ locals = [s \in Sessions |-> NoLocals]

SaveNext ==
    \/ \E s \in Sessions, p \in Players, key \in KnownKeys, take \in BOOLEAN :
           ClaimSeat(s, p, key, take)
    \/ \E s \in Sessions, p \in Players, key \in KnownKeys, name \in NamePicks :
           NameOpen(s, p, key, name)
    \/ \E s \in Sessions : NameWrite(s)
    \/ \E s \in Sessions, p \in Players, key \in KnownKeys, name \in NamePicks :
           NameBlank(s, p, key, name)
    \/ \E s \in Sessions, p \in Players, key \in KnownKeys : NameRender(s, p, key)
    \/ \E s \in Sessions : NameFinish(s)
    \/ \E s \in Sessions, p \in Players, key \in KnownKeys : ResultsBest(s, p, key)
    \/ \E s \in Sessions : ResultsDone(s)
    \/ \E s \in Sessions : SaveEntries(s)
    \/ \E s \in Sessions : SaveLoad(s)
    \/ \E s \in Sessions : SaveOpen(s)
    \/ \E s \in Sessions : SaveDump(s)
    \/ \E s \in Sessions : SaveMark(s)
    \/ \E s \in Sessions, p \in Players, key \in KnownKeys : NewGame(s, p, key)

SaveSpec == SaveInit /\ [][SaveNext]_vars

\* the entries of the game on a leaderboard
OfGame(board) == {i \in 1..Len(board) : board[i].game_id = gid}

\* C37: the leaderboard file is written only while the stage is finished;
\* a save leaves on it exactly one entry for each player of the game; and
\* the entries of a game are written once, not a second time by another
\* run.
C37_SavedOnce ==
    [][/\ leaderboard' # leaderboard => stage = "finished"
       /\ \A s \in Sessions :
              At(s, "L144")
                  => /\ Cardinality(OfGame(leaderboard')) = players
                     /\ ~leaderboard_saved
                     /\ \A t \in Sessions \ {s} : pc[t] # "L2030"
      ]_vars

(***************************************************************************)
(* ClaimSpec: claim_seat (lines 1421-1441) and seat_key_for (lines         *)
(* 1413-1418) statement by statement, called from the head of the page     *)
(* script (line 1679, and line 1683 with force=True when "Take seat" is    *)
(* pressed), on a game just created.  locals[s] holds the arguments of the *)
(* call and the locals `current` and `key` of the two functions.           *)
(***************************************************************************)
\* uuid.uuid4().hex drawn by a run of session s for a seat: two draws are
\* never equal
uuid4_of(s, player) == KeyNames[player] \o s

\* line 1679: claim_seat is called with the key of the request; line 1430
\* reads the holder of the seat
ClaimCall(s, p, key, take) ==
    /\ pc[s] = "idle"
    /\ in_store
    /\ triangle_names' = ensure_state_meta(triangle_names, triangle_labels)
    /\ goto(s, "L1431")
    /\ locals' = [locals EXCEPT ![s] =
                     [player |-> p, seat_key |-> key, force |-> FALSE,
                      take |-> take, current |-> seats[p], key |-> None]]
    /\ UNCHANGED <<config, leaderboard, leaderboard_saved, player_names, in_store, game_rest, seats, seat_keys, notice>>

\* lines 1431, 1434, 1435, 1438, 1441: the branch of the call; the failed
\* call returns (False, current_key) and writes nothing (lines 1680-1693:
\* "Seat already taken", the run stops unless "Take seat" is pressed)
ClaimTest(s) ==
    LET r == locals[s]
        current_key == seat_keys[r.player]
    IN  /\ pc[s] = "L1431"
        /\ IF r.current \in {None, s}
           THEN goto(s, "L1432") /\ UNCHANGED <<locals, notice>>
           ELSE IF r.seat_key # None /\ current_key # None
                       /\ r.seat_key = current_key
           THEN goto(s, "L1436") /\ UNCHANGED <<locals, notice>>
           ELSE IF r.force
           THEN goto(s, "L1439") /\ UNCHANGED <<locals, notice>>
           ELSE /\ notice' = "seat_taken"
                /\ IF r.take
                   THEN goto(s, "L1683") /\ UNCHANGED locals
                   ELSE rerun(s)
        /\ UNCHANGED <<config, leaderboard, leaderboard_saved, player_names, in_store, game, seats, seat_keys>>

\* line 1683: "Take seat" pressed, claim_seat is called with force=True and
\* no key; line 1430 reads the holder of the seat
ClaimForce(s) ==
    /\ pc[s] = "L1683"
    /\ goto(s, "L1431")
    /\ locals' = [locals EXCEPT ![s] =
                     [@ EXCEPT !.seat_key = None, !.force = TRUE,
                               !.current = seats[locals[s].player]]]
    /\ UNCHANGED <<config, leaderboard, leaderboard_saved, player_names, in_store, game, seats, seat_keys, notice>>

\* lines 1432, 1436, 1439: seats[player] = session_id; line 1437 returns
\* the key that matched, lines 1433 and 1440 go on to seat_key_for
ClaimSit(s) ==
    /\ pc[s] \in {"L1432", "L1436", "L1439"}
    /\ seats' = [seats EXCEPT ![locals[s].player] = s]
    /\ IF pc[s] = "L1436" THEN rerun(s)
       ELSE goto(s, "L1414") /\ UNCHANGED locals
    /\ UNCHANGED <<config, leaderboard, leaderboard_saved, player_names, in_store, game, seat_keys, notice>>

\* lines 1414-1416: seat_key_for reads the seat's key; a seat without a key
\* has one drawn
KeyRead(s) ==
    LET key == seat_keys[locals[s].player]
    IN  /\ pc[s] = "L1414"
        /\ IF key # None THEN rerun(s)
           ELSE /\ goto(s, "L1417")
                /\ locals' = [locals EXCEPT ![s] =
                                 [@ EXCEPT !.key = uuid4_of(s, locals[s].player)]]
        /\ UNCHANGED <<config, leaderboard, leaderboard_saved, player_names, in_store, game, seats, seat_keys, notice>>

\* line 1417: state["seat_keys"][player] = key; line 1418 returns it
KeyWrite(s) ==
    /\ pc[s] = "L1417"
    /\ seat_keys' = [seat_keys EXCEPT ![locals[s].player] = locals[s].key]
    /\ rerun(s)
    /\ UNCHANGED <<config, leaderboard, leaderboard_saved, player_names, in_store, game, seats, notice>>

ClaimNext ==
    \/ \E s \in Sessions, p \in Players, key \in KnownKeys, take \in BOOLEAN :
           ClaimCall(s, p, key, take)
    \/ \E s \in Sessions : ClaimTest(s)
    \/ \E s \in Sessions : ClaimForce(s)
    \/ \E s \in Sessions : ClaimSit(s)
    \/ \E s \in Sessions : KeyRead(s)
    \/ \E s \in Sessions : KeyWrite(s)

ClaimSpec == Init /\ [][ClaimNext]_vars

\* C38: once a claim key has been generated for a seat it never changes, a
\* seat that has been occupied never becomes free again, and a failed
\* claim_seat call (from its call to its return of False) leaves the seat
\* holders and the seat keys unchanged.
C38_SeatsStable ==
    [][/\ \A p \in Players :
              /\ seat_keys[p] # None => seat_keys'[p] = seat_keys[p]
              /\ seats[p] # None => seats'[p] # None
       /\ \A s \in Sessions :
              (pc[s] = "L1431" /\ pc'[s] \in {"idle", "L1683"})
                  => UNCHANGED <<seats, seat_keys>>
      ]_vars

====
